---- MODULE Spec2Model ----
(***************************************************************************)
(* Runtime attestation of tahini_lib: the sidecar (sidecar/src/main.rs,    *)
(* tahini_attest/src/sidecar.rs), the service ingress thread               *)
(* (hoodini-server/src/lib.rs) and the client verifier                     *)
(* (hoodini-client/src/lib.rs), with the key agreement of                  *)
(* hoodini-core/src/service.rs; the policy hasher of policy_signing        *)
(* (src/lib.rs, src/utils/dependency.rs, src/bin/cargo-attest.rs); the     *)
(* certificate issuer (certificate_generation/src); and the                *)
(* CertificateLoader of hoodini-core/src/certificate.rs.                   *)
(***************************************************************************)
EXTENDS Integers, Sequences, FiniteSets, TLC

(***************************************************************************)
(* Bounds of the model.                                                    *)
(***************************************************************************)
\* attestation calls (client connections) in one run
MaxCalls == 2
\* get_key_for_client calls of service handlers in one run
MaxTakes == 2
\* client ids are drawn from FirstId .. FirstId + MaxIdDraw
MaxIdDraw == 1
\* ephemeral X25519 private keys are drawn from 1 .. MaxSk
MaxSk == 2
\* attestation nonces of a client are drawn from 1 .. MaxNonce
MaxNonce == 1
\* AEAD nonces of a pipe key are drawn from 1 .. MaxAeadNonce
MaxAeadNonce == 1
\* key material of a pipe KEK is drawn from 1 .. MaxKek
MaxKek == 1
\* lines put into one FIFO when the pipe is driven line by line
MaxPipeLines == 2
\* session key materials of those lines are derived from 1 .. MaxPipeKey
MaxPipeKey == 2
\* compiler runs (rustc with the attest driver) in one build
MaxJobs == 3
\* bytes of a SHA-256 digest in the certificate issuer
DigestLen == 2
\* calls made on one CertificateLoader
MaxLoaderCalls == 3

(***************************************************************************)
(* Program constants.                                                      *)
(***************************************************************************)
\* [u8; 12]: the AEAD nonce of a FIFO line
NONCE_LEN == 12
\* [0u8; 32]: the derived key material
KEY_LEN == 32
\* the AES-256-GCM tag appended by seal_in_place_append_tag
TAG_LEN == 16
\* the prime and the generator of the group standing for X25519
DhPrime == 23
DhGen == 5

Byte == 0..255

Ok(v) == [ok |-> TRUE, val |-> v]
Err == [ok |-> FALSE, val |-> <<>>]

Range(s) == {s[i] : i \in 1..Len(s)}

RECURSIVE Concat(_)
Concat(ss) == IF ss = <<>> THEN <<>> ELSE ss[1] \o Concat(Tail(ss))

SumSeq(s) ==
    LET sum[i \in 0..Len(s)] == IF i = 0 THEN 0 ELSE s[i] + sum[i - 1]
    IN  sum[Len(s)]

(***************************************************************************)
(* hex::encode / hex::decode / hex::decode_to_slice                        *)
(***************************************************************************)
HexDigits == <<"0", "1", "2", "3", "4", "5", "6", "7",
               "8", "9", "a", "b", "c", "d", "e", "f">>

HexVal(c) == CHOOSE n \in 0..15 : HexDigits[n + 1] = c

hex_encode(bytes) ==
    [i \in 1..(2 * Len(bytes)) |->
        IF i % 2 = 1 THEN HexDigits[(bytes[(i + 1) \div 2] \div 16) + 1]
                     ELSE HexDigits[(bytes[i \div 2] % 16) + 1]]

hex_decode(str) ==
    IF Len(str) % 2 # 0 \/ \E i \in 1..Len(str) : str[i] \notin Range(HexDigits)
    THEN Err
    ELSE Ok([i \in 1..(Len(str) \div 2) |->
                16 * HexVal(str[2 * i - 1]) + HexVal(str[2 * i])])

\* decode into a fixed slice of n bytes: the length must match exactly
hex_decode_to_slice(str, n) ==
    IF Len(str) # 2 * n THEN Err ELSE hex_decode(str)

(***************************************************************************)
(* Display for usize / usize::from_str_radix(_, 10) / trim_end_matches     *)
(***************************************************************************)
DecDigits == <<"0", "1", "2", "3", "4", "5", "6", "7", "8", "9">>

RECURSIVE to_decimal(_)
to_decimal(n) ==
    IF n < 10 THEN <<DecDigits[n + 1]>>
    ELSE to_decimal(n \div 10) \o <<DecDigits[(n % 10) + 1]>>

DecVal(c) == CHOOSE n \in 0..9 : DecDigits[n + 1] = c

RECURSIVE DecFold(_, _)
DecFold(acc, s) ==
    IF s = <<>> THEN acc ELSE DecFold(10 * acc + DecVal(s[1]), Tail(s))

\* an unsigned integer: one leading "+" is accepted, then at least one digit
from_str_radix(str) ==
    LET digits == IF str # <<>> /\ str[1] = "+" THEN Tail(str) ELSE str
    IN  IF digits = <<>> \/ \E i \in 1..Len(digits) : digits[i] \notin Range(DecDigits)
        THEN Err
        ELSE Ok(DecFold(0, digits))

RECURSIVE trim_end_matches(_, _)
trim_end_matches(str, c) ==
    IF str # <<>> /\ str[Len(str)] = c
    THEN trim_end_matches(SubSeq(str, 1, Len(str) - 1), c)
    ELSE str

\* str::split(","): the fields between the separators (always at least one)
RECURSIVE split(_, _)
split(str, sep) ==
    IF \E i \in 1..Len(str) : str[i] = sep
    THEN LET i == CHOOSE j \in 1..Len(str) :
                     str[j] = sep /\ \A k \in 1..(j - 1) : str[k] # sep
         IN  <<SubSeq(str, 1, i - 1)>> \o split(SubSeq(str, i + 1, Len(str)), sep)
    ELSE <<str>>

(***************************************************************************)
(* AES-256-GCM under a RandomizedNonceKey: a keystream cipher with a tag   *)
(* that depends on the key, the nonce and the ciphertext.                  *)
(***************************************************************************)
NonceBytes(n) == [i \in 1..NONCE_LEN |-> (n * 16 + i) % 256]

KeyStream(key, nonce, i) ==
    (key[((i - 1) % KEY_LEN) + 1] + nonce[((i - 1) % NONCE_LEN) + 1]) % 256

GcmTag(key, nonce, ct) ==
    [i \in 1..TAG_LEN |->
        (key[i] + nonce[((i - 1) % NONCE_LEN) + 1] + SumSeq(ct) + i) % 256]

\* RandomizedNonceKey::new: the key material must be 32 bytes
aead_key_new(material) ==
    IF Len(material) = KEY_LEN THEN Ok(material) ELSE Err

seal_in_place_append_tag(key, nonce, plain) ==
    LET ct == [i \in 1..Len(plain) |-> (plain[i] + KeyStream(key, nonce, i)) % 256]
    IN  ct \o GcmTag(key, nonce, ct)

\* decryption that does not compare the tag
OpenUnauthenticated(key, nonce, buf) ==
    IF Len(buf) < TAG_LEN THEN Err
    ELSE LET ct == SubSeq(buf, 1, Len(buf) - TAG_LEN)
         IN  Ok([i \in 1..Len(ct) |->
                    (ct[i] + 256 - KeyStream(key, nonce, i)) % 256])

open_in_place(key, nonce, buf) ==
    IF Len(buf) < TAG_LEN THEN Err
    ELSE LET ct  == SubSeq(buf, 1, Len(buf) - TAG_LEN)
             tag == SubSeq(buf, Len(buf) - TAG_LEN + 1, Len(buf))
         IN  IF tag # GcmTag(key, nonce, ct) THEN Err
             ELSE Ok([i \in 1..Len(ct) |->
                        (ct[i] + 256 - KeyStream(key, nonce, i)) % 256])

(***************************************************************************)
(* X25519 and SSKDF-HMAC-SHA256                                            *)
(***************************************************************************)
RECURSIVE ModExp(_, _, _)
ModExp(b, e, m) == IF e = 0 THEN 1 % m ELSE (b * ModExp(b, e - 1, m)) % m

\* EphemeralPrivateKey::compute_public_key
compute_public_key(sk) == ModExp(DhGen, sk, DhPrime)

\* agree_ephemeral(local_skey, peer): the shared secret
agree_ephemeral(sk, peer) == ModExp(peer, sk, DhPrime)

\* sskdf_hmac(alg, secret, info, salt, out): KEY_LEN bytes; info and salt are
\* small integers standing for the byte strings
sskdf_hmac(secret, info, salt) ==
    [i \in 1..KEY_LEN |-> (secret * 7 + info * 3 + salt * 5 + i) % 256]

\* info "Sidecar_session", salt [0u8; 32]
SessionInfo == 1
ZeroSalt == 0

derive_key_from_shares(local_skey, remote_share) ==
    sskdf_hmac(agree_ephemeral(local_skey, remote_share), SessionInfo, ZeroSalt)

(***************************************************************************)
(* The deployment: two binaries, each hosting one public service.          *)
(***************************************************************************)
Bins == {"bin_a", "bin_b"}
Services == {"svc_a", "svc_b"}

\* sidecar_config.toml [service_mapping]: binary name -> public service name
ConfigMapping == [b \in Bins |-> IF b = "bin_a" THEN "svc_a" ELSE "svc_b"]

Calls == 1..MaxCalls
ClientIds == {9 + i : i \in 0..MaxIdDraw}
\* the ephemeral private keys a client and the sidecar draw
ClientSks == 1..MaxSk
ServerSks == (MaxSk + 1)..(2 * MaxSk)
Nonces == 1..MaxNonce
AeadNonces == 1..MaxAeadNonce
Keks == 1..MaxKek

\* the executable as built (and certified), or with one byte flipped on disk
ExeContents == {"built", "flipped"}

\* SHA-256 of a file, hex-encoded: injective in the contents
Sha256Hex(bin, contents) == <<"sha256", bin, contents>>

\* the loop stops after the first chunk: a byte flipped beyond it is not hashed
HashOfFirstChunk(bin, contents) == Sha256Hex(bin, "built")

\* hash_bin: read the file in 8 KiB chunks and hash its contents
hash_bin(bin, contents) == Sha256Hex(bin, contents)

PolicyHashOf(bin) == <<"policy", bin>>

\* Ed25519: a signature is valid for exactly the key and message it was made of
ed25519_sign(key, msg) == <<"sig", key, msg>>
ed25519_verify(key, msg, sig) == sig = <<"sig", key, msg>>

IssuerKey == "issuer_key"
AttestationKey == "attestation_key"

\* the certificate the issuer wrote for a binary (TahiniCertificate)
IssuedCertificate(bin) ==
    [service_name |-> bin,
     policy_hash  |-> PolicyHashOf(bin),
     binary_hash  |-> Sha256Hex(bin, "built"),
     signature    |-> ed25519_sign(IssuerKey,
                          <<PolicyHashOf(bin), Sha256Hex(bin, "built")>>)]

\* a certificate of an older build that a client may still hold
OutdatedCertificate(bin) ==
    [IssuedCertificate(bin) EXCEPT
        !.policy_hash = <<"policy_old", bin>>,
        !.signature = ed25519_sign(IssuerKey,
                          <<<<"policy_old", bin>>, Sha256Hex(bin, "built")>>)]

\* a map as a function on its key set
EmptyMap == [k \in {} |-> 0]
\* an insertion that keeps the value of a key that is already present
MapInsertIfAbsent(m, k, v) ==
    [j \in (DOMAIN m) \cup {k} |-> IF j \in DOMAIN m THEN m[j] ELSE v]
MapInsert(m, k, v) == [j \in (DOMAIN m) \cup {k} |-> IF j = k THEN v ELSE m[j]]
\* a removal that empties the map
MapClear(m, k) == [j \in {} |-> 0]
MapRemove(m, k) == [j \in (DOMAIN m) \ {k} |-> m[j]]

VARIABLES
    \* ---- the host
    exe_on_disk,        \* binary -> contents of its executable
    fifo_file,          \* binary -> "absent" | "stale" | "fifo" at <run_path>/sidecar_fifo
    fifo,               \* binary -> the bytes in the pipe
    fifo_readers,       \* binary -> number of open read ends
    fifo_writers,       \* binary -> number of open write ends
    \* ---- sidecar: main
    main_pc, main_bin, main_hash, main_handle, todo,
    launch_log,         \* binary -> the events of launch_binary, in order (history)
    \* ---- sidecar: SideCarServer
    service_bin_map, certificate_server, signing_key, service_mapping,
    service_key_passing_sessions,
    sessions_lock,      \* holder of the Mutex around service_key_passing_sessions (0: free)
    \* ---- attested service processes
    child,              \* binary -> position of the pre-main constructor
    reader,             \* binary -> the reader thread: pc, line buffer, parsed pair
    CLIENT_MAP,         \* binary -> client id -> session key
    map_poisoned,       \* binary -> the RwLock of CLIENT_MAP is poisoned
    \* ---- clients
    client_certificates, service_to_bin, allowed_keys,
    clients,            \* the number of clients that attest in this run
    call,               \* call -> the client's verify_binary and the sidecar's attest_binary
    \* ---- history
    fifo_stream,        \* binary -> <<call, k>> of every fragment written, in order
    lines_written,      \* binary -> lines completely written, in order
    lines_read,         \* binary -> pairs returned by read_session_key, in order
    takes,              \* get_key_for_client calls and their outcomes, in order
    \* ---- the policy hasher
    cargo_pc,           \* cargo-attest: "none" | "start" | "running"
    hash_index,         \* ./policy_hashes/hash_index: exists, the names and newlines written
    policy_file,        \* crate name -> ./policy_hashes/<name>_policy_hashes.json
    rustc,              \* job -> the compiler run of one crate and its Crate value
    emitted,            \* job -> the lines of the policy-hash file it completed (history)
    \* ---- the certificate issuer (certificate_generation)
    issuer_pc,          \* position of main: "none" | "start" | ... | "done"
    target_release,     \* entry name -> the entry of <project>/target/release
    issuer,             \* the locals of main: key, binaries, maps, result
    certificates_dir,   \* name -> <project>/certificates/<name>_certificate.json
    \* ---- a CertificateLoader under construction (hoodini-core)
    loader,             \* the fields certificates and accepted_keys
    loader_log          \* the calls made on the loader and their results, in order

hostVars == <<exe_on_disk, fifo_file, fifo, fifo_readers, fifo_writers>>
mainVars == <<main_pc, main_bin, main_hash, main_handle, todo, launch_log>>
serverVars == <<service_bin_map, certificate_server, signing_key, service_mapping,
                service_key_passing_sessions, sessions_lock>>
serviceVars == <<child, reader, CLIENT_MAP, map_poisoned>>
clientVars == <<client_certificates, service_to_bin, allowed_keys, clients, call>>
histVars == <<fifo_stream, lines_written, lines_read, takes>>
buildVars == <<cargo_pc, hash_index, policy_file, rustc, emitted>>
issuerVars == <<issuer_pc, target_release, issuer, certificates_dir>>
loaderVars == <<loader, loader_log>>
vars == <<hostVars, mainVars, serverVars, serviceVars, clientVars, histVars, buildVars,
          issuerVars, loaderVars>>

\* the FIFO path as the info string of the KEK derivation
PathInfo(bin) == IF bin = "bin_a" THEN 2 ELSE 3

NoHandle == [kek |-> <<>>, fifo_path |-> "", handle |-> "unset"]

NoCall ==
    [pc |-> "idle", service |-> "", bin |-> "", rpc_name |-> "", nonce |-> 0, sk |-> 0,
     client_id |-> 0, server_key_share |-> 0, usable_key |-> <<>>,
     sign_data |-> <<>>, sig |-> <<>>, frags |-> <<>>, written |-> 0,
     target |-> "", report |-> <<>>, result |-> "none", aes_key |-> <<>>,
     verify_data |-> <<>>, swapped |-> FALSE]

\* the certificates a client holds: those issued, or an outdated one for bin_a
ClientCertificateStores ==
    {[b \in Bins |-> IssuedCertificate(b)],
     [b \in Bins |-> IF b = "bin_a" THEN OutdatedCertificate(b)
                                    ELSE IssuedCertificate(b)]}

(***************************************************************************)
(* The policy hasher (policy_signing): the crates of a build, the crates   *)
(* each one uses and its implementations of the policy trait.              *)
(***************************************************************************)
Jobs == 1..MaxJobs

\* the crate that defines the policy trait
SESAME == "alohomora"

\* the crates compiled with the attest driver
Crates == {"dep_a", "dep_b", "app", "util", "plain"}

\* tcx.used_crates(()) of a crate, as a set
UsedCrates(c) ==
    IF c = "app" THEN {SESAME, "dep_a", "dep_b"}
    ELSE IF c = "plain" THEN {}
    ELSE {SESAME}

\* the impl blocks of the policy trait in a crate: <<def path of the type,
\* fingerprint of the optimized MIR of its items>>
LocalImpls(c) ==
    IF c = "app" THEN {<<"app::P1", "fp_app_1">>, <<"app::P2", "fp_app_2">>}
    ELSE IF c = "dep_a" THEN {<<"dep_a::P", "fp_dep_a">>}
    ELSE IF c = "dep_b" THEN {<<"dep_b::P", "fp_dep_b">>}
    ELSE {}

\* the sequences that hold every element of S once
Perms(S) ==
    {s \in [1..Cardinality(S) -> S] :
        \A i, j \in 1..Cardinality(S) : i # j => s[i] # s[j]}

\* Ord of CrateName (derived from String): the position of a name among the
\* names of the build in lexicographic order
NameRank(n) ==
    CASE n = "alohomora" -> 1
      [] n = "app"       -> 2
      [] n = "dep_a"     -> 3
      [] n = "dep_b"     -> 4
      [] n = "plain"     -> 5
      [] n = "util"      -> 6

\* Vec::sort of a set of crate names
SortNames(S) ==
    CHOOSE s \in Perms(S) :
        \A i, j \in 1..Cardinality(S) : i < j => NameRank(s[i]) < NameRank(s[j])

\* sha256::digest: the hex digest of its input
sha256_digest(x) == <<"sha256", x>>

\* serde_json::to_vec of a map: its entries in the order the map iterates
map_to_vec(entries) == <<"json", entries>>

\* serde_json::to_writer_pretty of the JsonDumpStruct
to_writer_pretty(value) == <<"json_pretty", value>>

NoFile == [exists |-> FALSE, lines |-> <<>>]

NoJob ==
    [crate |-> "", after |-> {}, pc |-> "none", used |-> <<>>, local |-> <<>>,
     dependencies_names |-> <<>>, dependencies_hashes |-> <<>>,
     deps_hashes_map |-> <<>>, total_hash |-> <<>>, result |-> "none"]

\* no build takes place
NoBuild ==
    /\ cargo_pc = "none"
    /\ hash_index = [exists |-> FALSE, bytes |-> <<>>]
    /\ policy_file = [c \in Crates |-> NoFile]
    /\ rustc = [j \in Jobs |-> NoJob]
    /\ emitted = [j \in Jobs |-> <<>>]

\* the entries that may be found in <project>/target/release
TargetEntries == {"app", "dep_a", "plain"}

NoEntry == [kind |-> "absent", mode |-> <<0, 0, 0>>, contents |-> <<>>]

NoCertificateFile == [exists |-> FALSE, certificate |-> <<>>]

NoMain ==
    [key_file |-> "missing", key |-> "none", binaries |-> {}, pols |-> <<>>,
     bin_hashes |-> <<>>, certificates |-> <<>>, written |-> {}, current |-> "",
     result |-> "none"]

\* the certificate issuer does not run
NoIssuer ==
    /\ issuer_pc = "none"
    /\ target_release = [n \in TargetEntries |-> NoEntry]
    /\ issuer = NoMain
    /\ certificates_dir = [n \in TargetEntries |-> NoCertificateFile]

\* CertificateLoader::new 20-26
NewLoader == [certificates |-> <<>>, accepted_keys |-> "None", service_to_bin |-> <<>>]

\* no loader is being built
NoLoader ==
    /\ loader = NewLoader
    /\ loader_log = <<>>

\* The state before the sidecar starts, for a [binaries] table of the config
\* and a number of clients that will attest. In an honest deployment the
\* executables are the certified ones and the clients hold the issued
\* certificates and the sidecar's attestation key; otherwise the executable of
\* bin_a, the clients' certificates and their accepted key may each differ.
InitMapped(binaries, n_clients, honest, stores, mappings) ==
    /\ exe_on_disk \in [Bins -> ExeContents]
    /\ exe_on_disk["bin_b"] = "built"
    /\ honest => exe_on_disk["bin_a"] = "built"
    /\ fifo_file = [b \in Bins |-> IF b = "bin_a" THEN "stale" ELSE "absent"]
    /\ fifo = [b \in Bins |-> <<>>]
    /\ fifo_readers = [b \in Bins |-> 0]
    /\ fifo_writers = [b \in Bins |-> 0]
    /\ main_pc = "loop"
    /\ main_bin = ""
    /\ main_hash = <<>>
    /\ main_handle = NoHandle
    /\ todo = binaries
    /\ launch_log = [b \in Bins |-> <<>>]
    /\ service_bin_map = EmptyMap
    /\ certificate_server \in stores
    /\ signing_key = AttestationKey
    /\ service_mapping \in mappings
    /\ service_key_passing_sessions = EmptyMap
    /\ sessions_lock = 0
    /\ child = [b \in Bins |-> "none"]
    /\ reader = [b \in Bins |-> [pc |-> "none", kek |-> <<>>, got |-> <<>>]]
    /\ CLIENT_MAP = [b \in Bins |-> EmptyMap]
    /\ map_poisoned = [b \in Bins |-> FALSE]
    /\ client_certificates \in ClientCertificateStores
    /\ honest => client_certificates = [b \in Bins |-> IssuedCertificate(b)]
    /\ service_to_bin = [s \in Services |->
                            CHOOSE b \in Bins : ConfigMapping[b] = s]
    /\ allowed_keys \in {AttestationKey, "other_key"}
    /\ honest => allowed_keys = AttestationKey
    /\ clients = n_clients
    /\ call = [c \in Calls |-> NoCall]
    /\ fifo_stream = [b \in Bins |-> <<>>]
    /\ lines_written = [b \in Bins |-> <<>>]
    /\ lines_read = [b \in Bins |-> <<>>]
    /\ takes = <<>>

\* the [service_mapping] table gives each binary a service name of its own
InitAttestation(binaries, n_clients, honest, stores) ==
    InitMapped(binaries, n_clients, honest, stores, {ConfigMapping})

InitOf(binaries, n_clients, honest, stores) ==
    /\ InitAttestation(binaries, n_clients, honest, stores)
    /\ NoBuild
    /\ NoIssuer
    /\ NoLoader

\* the certificate store of a sidecar whose certificate config names bins
CertificateStore(bins) == [b \in bins |-> IssuedCertificate(b)]

\* a sidecar whose certificate config names every binary
InitWith(binaries, n_clients, honest) ==
    InitOf(binaries, n_clients, honest, {CertificateStore(Bins)})

\* two binaries, any deployment, one attesting client
Init == InitWith(Bins, 1, FALSE)

\* one binary, an honest deployment, concurrently attesting clients
InitRace == InitWith({"bin_a"}, MaxCalls, TRUE)

\* a sidecar that launches bin_a only, and whose certificate config names
\* every binary or lacks bin_a; an honest deployment otherwise, concurrently
\* attesting clients
InitPartial ==
    InitOf({"bin_a"}, MaxCalls, TRUE,
           {CertificateStore(Bins), CertificateStore({"bin_b"})})

(***************************************************************************)
(* Sidecar startup: main, lines 179-212, and launch_binary.                *)
(***************************************************************************)
\* main 194-195: the next binary of the table (HashMap order) is hashed
MainHashBin ==
    /\ main_pc = "loop"
    /\ \E b \in todo :
        /\ main_bin' = b
        /\ main_hash' = hash_bin(b, exe_on_disk[b])
        /\ todo' = todo \ {b}
    /\ main_pc' = "hashed"
    /\ UNCHANGED <<main_handle, launch_log>>
    /\ UNCHANGED <<hostVars, serverVars, serviceVars, clientVars, histVars>>
    /\ UNCHANGED <<buildVars, issuerVars, loaderVars>>

\* launch_binary 26-27: create_fifo removes what is at the path, then mkfifo
LaunchCreateFifo ==
    /\ main_pc = "hashed"
    /\ fifo_file' = [fifo_file EXCEPT ![main_bin] = "fifo"]
    /\ launch_log' = [launch_log EXCEPT ![main_bin] = Append(@, "create_fifo")]
    /\ main_pc' = "fifo_created"
    /\ UNCHANGED <<main_bin, main_hash, main_handle, todo>>
    /\ UNCHANGED <<exe_on_disk, fifo, fifo_readers, fifo_writers>>
    /\ UNCHANGED <<serverVars, serviceVars, clientVars, histVars>>
    /\ UNCHANGED <<buildVars, issuerVars, loaderVars>>

\* launch_binary 28: FifoWriterHandle::new derives the KEK; the file is not opened
LaunchNewHandle ==
    /\ main_pc = "fifo_created"
    /\ \E k \in Keks, salt \in Keks :
        main_handle' = [kek |-> sskdf_hmac(k, PathInfo(main_bin), salt),
                        fifo_path |-> main_bin, handle |-> "unset"]
    /\ main_pc' = "handle_new"
    /\ UNCHANGED <<main_bin, main_hash, todo, launch_log>>
    /\ UNCHANGED <<hostVars, serverVars, serviceVars, clientVars, histVars>>
    /\ UNCHANGED <<buildVars, issuerVars, loaderVars>>

\* launch_binary 30-37: the child is spawned with --fifo_path and --kek_hex;
\* its pre-main constructor parses them and enters open(read) on the FIFO
LaunchSpawn ==
    /\ main_pc = "handle_new"
    /\ child' = [child EXCEPT ![main_bin] = "ctor_opening"]
    /\ reader' = [reader EXCEPT ![main_bin].kek = hex_encode(main_handle.kek)]
    /\ launch_log' = [launch_log EXCEPT ![main_bin] = Append(@, "spawn")]
    /\ main_pc' = "spawned"
    /\ UNCHANGED <<main_bin, main_hash, main_handle, todo>>
    /\ UNCHANGED <<CLIENT_MAP, map_poisoned>>
    /\ UNCHANGED <<hostVars, serverVars, clientVars, histVars>>
    /\ UNCHANGED <<buildVars, issuerVars, loaderVars>>

\* a reader end of the FIFO is open or being opened
ReaderSidePresent(b) == child[b] # "none"

\* the write end of the FIFO is open or being opened
WriterSidePresent(b) ==
    fifo_writers[b] > 0 \/ (main_pc = "spawned" /\ main_bin = b)

\* enable_fifo 128-138: open(write, append) blocks until a reader end exists;
\* the OnceCell is set with the open file
enable_fifo ==
    /\ main_pc = "spawned"
    /\ fifo_file[main_bin] = "fifo"
    /\ ReaderSidePresent(main_bin)
    /\ main_handle.handle = "unset"
    /\ main_handle' = [main_handle EXCEPT !.handle = "open"]
    /\ fifo_writers' = [fifo_writers EXCEPT ![main_bin] = @ + 1]
    /\ launch_log' = [launch_log EXCEPT ![main_bin] = Append(@, "open_writer")]
    /\ main_pc' = "enabled"
    /\ UNCHANGED <<main_bin, main_hash, todo>>
    /\ UNCHANGED <<exe_on_disk, fifo_file, fifo, fifo_readers>>
    /\ UNCHANGED <<serverVars, serviceVars, clientVars, histVars>>
    /\ UNCHANGED <<buildVars, issuerVars, loaderVars>>

\* launch_binary returns the handle without enable_fifo
ReturnWithoutEnable ==
    /\ main_pc = "spawned"
    /\ launch_log' = [launch_log EXCEPT ![main_bin] = Append(@, "return")]
    /\ main_pc' = "launched"
    /\ UNCHANGED <<main_bin, main_hash, main_handle, todo>>
    /\ UNCHANGED <<hostVars, serverVars, serviceVars, clientVars, histVars>>
    /\ UNCHANGED <<buildVars, issuerVars, loaderVars>>

\* launch_binary 40: Ok(fifo_handle)
LaunchReturn ==
    /\ main_pc = "enabled"
    /\ launch_log' = [launch_log EXCEPT ![main_bin] = Append(@, "return")]
    /\ main_pc' = "launched"
    /\ UNCHANGED <<main_bin, main_hash, main_handle, todo>>
    /\ UNCHANGED <<hostVars, serverVars, serviceVars, clientVars, histVars>>
    /\ UNCHANGED <<buildVars, issuerVars, loaderVars>>

\* the handle replaces the one registered under the name and startup goes on
ReplaceWriter ==
    /\ main_pc = "launched"
    /\ IF main_bin \notin DOMAIN service_mapping
       THEN /\ main_pc' = "panicked"
            /\ UNCHANGED service_key_passing_sessions
       ELSE /\ service_key_passing_sessions' =
                  MapInsert(service_key_passing_sessions,
                            service_mapping[main_bin], main_handle)
            /\ main_pc' = "channel_set"
    /\ UNCHANGED <<main_bin, main_hash, main_handle, todo, launch_log>>
    /\ UNCHANGED <<service_bin_map, certificate_server, signing_key,
                   service_mapping, sessions_lock>>
    /\ UNCHANGED <<hostVars, serviceVars, clientVars, histVars>>
    /\ UNCHANGED <<buildVars, issuerVars, loaderVars>>

\* main 198-206 and setup_service_key_channel 82-92: the handle is registered
\* under the public service name; a name already registered is a panic
setup_service_key_channel ==
    /\ main_pc = "launched"
    /\ IF main_bin \notin DOMAIN service_mapping
       THEN /\ main_pc' = "panicked"
            /\ UNCHANGED service_key_passing_sessions
       ELSE /\ service_key_passing_sessions' =
                  MapInsert(service_key_passing_sessions,
                            service_mapping[main_bin], main_handle)
            /\ main_pc' = IF service_mapping[main_bin]
                                 \in DOMAIN service_key_passing_sessions
                            THEN "panicked" ELSE "channel_set"
    /\ UNCHANGED <<main_bin, main_hash, main_handle, todo, launch_log>>
    /\ UNCHANGED <<service_bin_map, certificate_server, signing_key,
                   service_mapping, sessions_lock>>
    /\ UNCHANGED <<hostVars, serviceVars, clientVars, histVars>>
    /\ UNCHANGED <<buildVars, issuerVars, loaderVars>>

\* main 207 and register_running_service 71-74
register_running_service ==
    /\ main_pc = "channel_set"
    /\ service_bin_map' = MapInsert(service_bin_map, main_bin, main_hash)
    /\ main_pc' = "loop"
    /\ UNCHANGED <<main_bin, main_hash, main_handle, todo, launch_log>>
    /\ UNCHANGED <<certificate_server, signing_key, service_mapping,
                   service_key_passing_sessions, sessions_lock>>
    /\ UNCHANGED <<hostVars, serviceVars, clientVars, histVars>>
    /\ UNCHANGED <<buildVars, issuerVars, loaderVars>>

\* the accept loop starts while binaries are still to be launched
ServeBeforeStartupEnds ==
    /\ main_pc = "loop"
    /\ main_pc' = "serving"
    /\ main_bin' = ""
    /\ main_hash' = <<>>
    /\ main_handle' = NoHandle
    /\ UNCHANGED <<todo, launch_log>>
    /\ UNCHANGED <<hostVars, serverVars, serviceVars, clientVars, histVars>>
    /\ UNCHANGED <<buildVars, issuerVars, loaderVars>>

\* main 211-225: every binary is launched; the accept loop starts
MainServe ==
    /\ main_pc = "loop"
    /\ todo = {}
    /\ main_pc' = "serving"
    /\ main_bin' = ""
    /\ main_hash' = <<>>
    /\ main_handle' = NoHandle
    /\ UNCHANGED <<todo, launch_log>>
    /\ UNCHANGED <<hostVars, serverVars, serviceVars, clientVars, histVars>>
    /\ UNCHANGED <<buildVars, issuerVars, loaderVars>>

(***************************************************************************)
(* The attested process: client_map_state_constructor and the thread.      *)
(***************************************************************************)
\* constructor 24-44: open(read) returns once a writer end exists, the reader
\* thread is spawned, and the constructor returns: its fifo_read is dropped
\* (closed) and the service's main starts. Until the thread has opened its own
\* read end, the pipe has no reader. (A thread that opens before the
\* constructor returns differs only in the pipe never being without a reader.)
client_map_state_constructor(b) ==
    /\ child[b] = "ctor_opening"
    /\ WriterSidePresent(b)
    /\ child' = [child EXCEPT ![b] = "main"]
    /\ reader' = [reader EXCEPT ![b].pc = "spawned"]
    /\ UNCHANGED <<CLIENT_MAP, map_poisoned>>
    /\ UNCHANGED <<hostVars, mainVars, serverVars, clientVars, histVars>>
    /\ UNCHANGED <<buildVars, issuerVars, loaderVars>>

\* FifoReadHandle::new 62-73: the thread opens its own read end and decodes
\* the KEK of the command line
FifoReadHandle_new(b) ==
    /\ reader[b].pc = "spawned"
    /\ WriterSidePresent(b)
    /\ LET kek_bytes == hex_decode(reader[b].kek)
       IN  IF kek_bytes.ok /\ aead_key_new(kek_bytes.val).ok
           THEN /\ reader' = [reader EXCEPT ![b].pc = "reading",
                                            ![b].kek = kek_bytes.val]
                /\ fifo_readers' = [fifo_readers EXCEPT ![b] = @ + 1]
           ELSE /\ reader' = [reader EXCEPT ![b].pc = "panicked"]
                /\ UNCHANGED fifo_readers
    /\ UNCHANGED <<exe_on_disk, fifo_file, fifo, fifo_writers>>
    /\ UNCHANGED <<child, CLIENT_MAP, map_poisoned>>
    /\ UNCHANGED <<mainVars, serverVars, clientVars, histVars>>
    /\ UNCHANGED <<buildVars, issuerVars, loaderVars>>

Min(a, b) == IF a < b THEN a ELSE b

\* the capacity of a BufReader
BUF_CAPACITY == 8192

\* read_session_key 87-116: one line, split, decoded and decrypted
ParseLine(kek, line) ==
    LET splitted_line == split(line, ",")
    IN  IF Len(splitted_line) # 3 THEN Err
        ELSE
        LET nonce  == hex_decode_to_slice(splitted_line[1], NONCE_LEN)
            cipher == hex_decode(splitted_line[2])
        IN  IF ~nonce.ok \/ ~cipher.ok THEN Err
            ELSE
            LET key_material == open_in_place(kek, nonce.val, cipher.val)
            IN  IF ~key_material.ok THEN Err
                ELSE
                LET key == aead_key_new(key_material.val)
                    id  == from_str_radix(trim_end_matches(splitted_line[3], "\n"))
                IN  IF ~key.ok \/ ~id.ok THEN Err
                    ELSE Ok([client_id |-> id.val, key |-> key.val])

\* what the BufReader of one read_session_key call keeps of the bytes it read
\* past the end of the line: it is dropped with the reader when the call returns
KeptAfterLine(rest) == <<>>

\* a panic of the reader thread unwinds it: its FifoReadHandle is dropped and
\* the read end closed
ReaderPanics(b) ==
    /\ reader' = [reader EXCEPT ![b].pc = "panicked", ![b].got = <<>>]
    /\ fifo_readers' = [fifo_readers EXCEPT ![b] = @ - 1]

\* read_session_key 82-84: read_line returns the bytes up to and including the
\* first newline; at end of file (no write end is open and none is being
\* opened) it returns the bytes that are left, and with n = 0 the loop calls it
\* again
read_line(b) ==
    IF \E i \in 1..Len(fifo[b]) : fifo[b][i] = "\n"
    THEN LET i == CHOOSE j \in 1..Len(fifo[b]) :
                      fifo[b][j] = "\n" /\ \A k \in 1..(j - 1) : fifo[b][k] # "\n"
         IN  [returns |-> TRUE, line |-> SubSeq(fifo[b], 1, i)]
    ELSE [returns |-> ~WriterSidePresent(b) /\ fifo[b] # <<>>, line |-> fifo[b]]

\* read_session_key 79-121: read_line of the BufReader created by this call
\* returns once a read(2) has brought the first newline. That read takes what
\* the pipe holds (up to the buffer's capacity); the reads before it brought
\* bytes without a newline into the same line and are part of this step. The
\* call returns the parsed pair or panics.
read_session_key(b) ==
    /\ reader[b].pc = "reading"
    /\ read_line(b).returns
    /\ LET i     == Len(read_line(b).line)
           n     == IF i < BUF_CAPACITY THEN Min(Len(fifo[b]), BUF_CAPACITY) ELSE i
           line  == read_line(b).line
           left  == SubSeq(fifo[b], n + 1, Len(fifo[b]))
           res   == ParseLine(reader[b].kek, line)
       IN  /\ fifo' = [fifo EXCEPT ![b] =
                          KeptAfterLine(SubSeq(fifo[b], i + 1, n)) \o left]
           /\ IF res.ok
              THEN /\ reader' = [reader EXCEPT ![b].pc = "got", ![b].got = res.val]
                   /\ lines_read' = [lines_read EXCEPT ![b] = Append(@, res.val)]
                   /\ UNCHANGED fifo_readers
              ELSE /\ ReaderPanics(b)
                   /\ UNCHANGED lines_read
    /\ UNCHANGED <<exe_on_disk, fifo_file, fifo_writers>>
    /\ UNCHANGED <<child, CLIENT_MAP, map_poisoned>>
    /\ UNCHANGED <<fifo_stream, lines_written, takes>>
    /\ UNCHANGED <<mainVars, serverVars, clientVars>>
    /\ UNCHANGED <<buildVars, issuerVars, loaderVars>>

\* thread loop 35-42: the pair is inserted under the write lock of CLIENT_MAP;
\* a poisoned lock is a panic
ReaderInsert(b) ==
    /\ reader[b].pc = "got"
    /\ IF map_poisoned[b]
       THEN /\ ReaderPanics(b)
            /\ UNCHANGED CLIENT_MAP
       ELSE /\ CLIENT_MAP' = [CLIENT_MAP EXCEPT ![b] =
                                 MapInsert(@, reader[b].got.client_id, reader[b].got.key)]
            /\ reader' = [reader EXCEPT ![b].pc = "reading", ![b].got = <<>>]
            /\ UNCHANGED fifo_readers
    /\ UNCHANGED <<child, map_poisoned>>
    /\ UNCHANGED <<exe_on_disk, fifo_file, fifo, fifo_writers>>
    /\ UNCHANGED <<mainVars, serverVars, clientVars, histVars>>
    /\ UNCHANGED <<buildVars, issuerVars, loaderVars>>

\* the entry is read with get and left in the map
MapAfterGet(m, id) == m

\* what get_key_for_client leaves of the map when it returns the entry of id
MapAfterTake(m, id) == MapRemove(m, id)

\* get_key_for_client 130-143, called by a handler of the service: under the
\* write lock the entry is removed and its key returned; a missing entry is a
\* panic that poisons the lock
get_key_for_client(b, id) ==
    /\ child[b] = "main"
    /\ Len(takes) < MaxTakes
    /\ IF map_poisoned[b]
       THEN /\ takes' = Append(takes, [bin |-> b, client_id |-> id, ok |-> FALSE, key |-> <<>>])
            /\ UNCHANGED <<CLIENT_MAP, map_poisoned>>
       ELSE IF id \in DOMAIN CLIENT_MAP[b]
       THEN /\ takes' = Append(takes, [bin |-> b, client_id |-> id, ok |-> TRUE,
                                       key |-> CLIENT_MAP[b][id]])
            /\ CLIENT_MAP' = [CLIENT_MAP EXCEPT ![b] = MapAfterTake(@, id)]
            /\ UNCHANGED map_poisoned
       ELSE /\ takes' = Append(takes, [bin |-> b, client_id |-> id, ok |-> FALSE, key |-> <<>>])
            /\ map_poisoned' = [map_poisoned EXCEPT ![b] = TRUE]
            /\ UNCHANGED CLIENT_MAP
    /\ UNCHANGED <<child, reader>>
    /\ UNCHANGED <<fifo_stream, lines_written, lines_read>>
    /\ UNCHANGED <<hostVars, mainVars, serverVars, clientVars>>
    /\ UNCHANGED <<buildVars, issuerVars, loaderVars>>

(***************************************************************************)
(* One attestation: verify_binary of a client and attest_binary of the     *)
(* sidecar.                                                                *)
(***************************************************************************)
\* the services a client may ask for; svc_x is in no mapping
RequestedServices == Services \cup {"svc_x"}

\* serde_json::to_vec of DynamicAttestationData: the fields in declaration order
to_vec(d) ==
    <<d.cert.service_name, d.cert.policy_hash, d.cert.binary_hash, d.cert.signature,
      d.nonce, d.service_name, d.current_bin_hash, d.server_key_share, d.client_id>>

\* verify_binary 78-104: the nonce, the reverse mapping, the key share and the
\* request to the sidecar
VerifyStart(c) ==
    /\ call[c].pc = "idle"
    /\ c <= clients
    /\ main_pc = "serving"
    /\ \A d \in Calls : d < c => call[d].pc # "idle"
    /\ \E s \in RequestedServices, n \in Nonces, sk \in ClientSks :
        IF s \notin DOMAIN service_to_bin
        THEN call' = [call EXCEPT ![c].pc = "done", ![c].service = s,
                                  ![c].result = "ServiceMismatchError"]
        ELSE call' = [call EXCEPT ![c].pc = "sent", ![c].service = s,
                                  ![c].bin = service_to_bin[s],
                                  ![c].rpc_name = service_to_bin[s],
                                  ![c].nonce = n, ![c].sk = sk]
    /\ UNCHANGED <<client_certificates, service_to_bin, allowed_keys, clients>>
    /\ UNCHANGED <<hostVars, mainVars, serverVars, serviceVars, histVars>>
    /\ UNCHANGED <<buildVars, issuerVars, loaderVars>>

\* a panic of the task serving the connection: the client's call fails
RpcFailed(c) ==
    [call EXCEPT ![c] = [NoCall EXCEPT !.pc = "done", !.result = "NetworkError",
                                       !.service = call[c].service,
                                       !.bin = call[c].bin]]

\* the sidecar agrees with the group's base point instead of the client's share
PeerShareIsBasePoint(c) == DhGen

\* which public key the sidecar agrees with: the share the client sent
PeerShareOfSidecar(c) == compute_public_key(call[c].sk)

\* a failed lookup of attest_binary ends the sidecar process
ResolveOrAbort(c) ==
    /\ main_pc = "serving"
    /\ call[c].pc = "sent"
    /\ LET service_name == call[c].rpc_name
       IN  IF service_name \notin DOMAIN service_bin_map
              \/ service_name \notin DOMAIN certificate_server
           THEN call' = RpcFailed(c)
           ELSE \E id \in ClientIds, sk \in ServerSks :
                LET signing_data ==
                        [cert             |-> certificate_server[service_name],
                         nonce            |-> call[c].nonce,
                         service_name     |-> service_name,
                         current_bin_hash |-> service_bin_map[service_name],
                         server_key_share |-> compute_public_key(sk),
                         client_id        |-> id]
                IN  call' = [call EXCEPT
                        ![c].pc = "signed",
                        ![c].client_id = id,
                        ![c].server_key_share = compute_public_key(sk),
                        ![c].usable_key =
                            derive_key_from_shares(sk, PeerShareOfSidecar(c)),
                        ![c].sign_data = to_vec(signing_data),
                        ![c].sig = ed25519_sign(signing_key, to_vec(signing_data))]
    /\ UNCHANGED <<client_certificates, service_to_bin, allowed_keys, clients>>
    /\ main_pc' = IF call[c].rpc_name \notin DOMAIN service_bin_map
                      \/ call[c].rpc_name \notin DOMAIN certificate_server
                   THEN "panicked" ELSE main_pc
    /\ UNCHANGED <<main_bin, main_hash, main_handle, todo, launch_log>>
    /\ UNCHANGED <<hostVars, serverVars, serviceVars, histVars>>
    /\ UNCHANGED <<buildVars, issuerVars, loaderVars>>

\* attest_binary 111-145: binary hash, certificate, client id, key agreement
\* and signature
AttestResolve(c) ==
    /\ main_pc = "serving"
    /\ call[c].pc = "sent"
    /\ LET service_name == call[c].rpc_name
       IN  IF service_name \notin DOMAIN service_bin_map
              \/ service_name \notin DOMAIN certificate_server
           THEN call' = RpcFailed(c)
           ELSE \E id \in ClientIds, sk \in ServerSks :
                LET signing_data ==
                        [cert             |-> certificate_server[service_name],
                         nonce            |-> call[c].nonce,
                         service_name     |-> service_name,
                         current_bin_hash |-> service_bin_map[service_name],
                         server_key_share |-> compute_public_key(sk),
                         client_id        |-> id]
                IN  call' = [call EXCEPT
                        ![c].pc = "signed",
                        ![c].client_id = id,
                        ![c].server_key_share = compute_public_key(sk),
                        ![c].usable_key =
                            derive_key_from_shares(sk, PeerShareOfSidecar(c)),
                        ![c].sign_data = to_vec(signing_data),
                        ![c].sig = ed25519_sign(signing_key, to_vec(signing_data))]
    /\ UNCHANGED <<client_certificates, service_to_bin, allowed_keys, clients>>
    /\ UNCHANGED <<hostVars, mainVars, serverVars, serviceVars, histVars>>
    /\ UNCHANGED <<buildVars, issuerVars, loaderVars>>

\* write_session_key is reached without the Mutex being awaited
LockNotAwaited(c) == TRUE

\* the Mutex of service_key_passing_sessions can be taken by call c
LockFree(c) == sessions_lock = 0

\* write_session_key 146-156: the fragments of the line that write! emits, each
\* with one write(2): nonce hex, comma, cipher hex, comma, client id, newline
LineFragments(kek, n, key_material, client_id) ==
    CHOOSE line \in
        {<<hex_encode(NonceBytes(n)), <<",">>, hex_encode(cipher), <<",">>,
           to_decimal(client_id), <<"\n">>>> :
             cipher \in {seal_in_place_append_tag(kek, NonceBytes(n), key_material)}} :
        TRUE

\* a writer picked without regard to the name asked for
AnyRegisteredService(service_name) ==
    CHOOSE s \in DOMAIN service_key_passing_sessions : TRUE

\* the key of service_key_passing_sessions that attest_binary writes to
ResolvedService(service_name) == service_mapping[service_name]

\* attest_binary 147-158: the Mutex is locked, the writer of the service that
\* the binary maps to is looked up, and write_session_key seals the key
AttestLock(c) ==
    /\ call[c].pc = "signed"
    /\ LockFree(c)
    /\ LET service_name == call[c].rpc_name
       IN  IF service_name \notin DOMAIN service_mapping
              \/ ResolvedService(service_name) \notin DOMAIN service_key_passing_sessions
           THEN /\ call' = RpcFailed(c)
                /\ UNCHANGED sessions_lock
           ELSE LET h == service_key_passing_sessions[ResolvedService(service_name)]
                IN  \E n \in AeadNonces :
                    /\ call' = [call EXCEPT
                            ![c].pc = "writing",
                            ![c].target = ResolvedService(service_name),
                            ![c].written = 0,
                            ![c].frags = LineFragments(h.kek, n, call[c].usable_key,
                                                       call[c].client_id)]
                    /\ sessions_lock' = c
    /\ UNCHANGED <<service_bin_map, certificate_server, signing_key, service_mapping,
                   service_key_passing_sessions>>
    /\ UNCHANGED <<client_certificates, service_to_bin, allowed_keys, clients>>
    /\ UNCHANGED <<hostVars, mainVars, serviceVars, histVars>>
    /\ UNCHANGED <<buildVars, issuerVars, loaderVars>>

\* write_session_key 157-164: the next write(2) of write!; without an open
\* writer end it panics, without a reader end the write fails (EPIPE) and the
\* call panics; a panic drops the lock guard
WriteFragment(c) ==
    /\ call[c].pc = "writing"
    /\ LET h == service_key_passing_sessions[call[c].target]
           b == h.fifo_path
           k == call[c].written + 1
       IN  IF h.handle # "open" \/ fifo_readers[b] = 0
           THEN /\ call' = RpcFailed(c)
                /\ sessions_lock' = 0
                /\ UNCHANGED <<fifo, fifo_stream, lines_written>>
           ELSE /\ fifo' = [fifo EXCEPT ![b] = @ \o call[c].frags[k]]
                /\ fifo_stream' = [fifo_stream EXCEPT ![b] = Append(@, <<c, k>>)]
                /\ IF k = Len(call[c].frags)
                   THEN /\ call' = [call EXCEPT ![c].pc = "written", ![c].written = k]
                        /\ lines_written' = [lines_written EXCEPT ![b] =
                               Append(@, [client_id |-> call[c].client_id,
                                          key |-> call[c].usable_key])]
                   ELSE /\ call' = [call EXCEPT ![c].written = k]
                        /\ UNCHANGED lines_written
                /\ UNCHANGED sessions_lock
    /\ UNCHANGED <<service_bin_map, certificate_server, signing_key, service_mapping,
                   service_key_passing_sessions>>
    /\ UNCHANGED <<exe_on_disk, fifo_file, fifo_readers, fifo_writers>>
    /\ UNCHANGED <<client_certificates, service_to_bin, allowed_keys, clients>>
    /\ UNCHANGED <<lines_read, takes>>
    /\ UNCHANGED <<mainVars, serviceVars>>
    /\ UNCHANGED <<buildVars, issuerVars, loaderVars>>

\* the report is returned once it is signed, before the line is written
ReturnBeforeWrite(c) ==
    /\ call[c].pc = "signed"
    /\ sessions_lock' = 0
    /\ call' = [call EXCEPT
            ![c].pc = "reported",
            ![c].report =
                [certificate      |-> certificate_server[call[c].rpc_name],
                 current_bin_hash |-> service_bin_map[call[c].rpc_name],
                 nonce            |-> call[c].nonce,
                 service_name     |-> call[c].rpc_name,
                 server_key_share |-> call[c].server_key_share,
                 client_id        |-> call[c].client_id,
                 signature        |-> call[c].sig]]
    /\ UNCHANGED <<service_bin_map, certificate_server, signing_key, service_mapping,
                   service_key_passing_sessions>>
    /\ UNCHANGED <<client_certificates, service_to_bin, allowed_keys, clients>>
    /\ UNCHANGED <<hostVars, mainVars, serviceVars, histVars>>
    /\ UNCHANGED <<buildVars, issuerVars, loaderVars>>

\* the report is returned and the guard of the Mutex is kept
ReturnHoldingLock(c) ==
    /\ call[c].pc = "written"
    /\ UNCHANGED sessions_lock
    /\ call' = [call EXCEPT
            ![c].pc = "reported",
            ![c].report =
                [certificate      |-> certificate_server[call[c].rpc_name],
                 current_bin_hash |-> service_bin_map[call[c].rpc_name],
                 nonce            |-> call[c].nonce,
                 service_name     |-> call[c].rpc_name,
                 server_key_share |-> call[c].server_key_share,
                 client_id        |-> call[c].client_id,
                 signature        |-> call[c].sig]]
    /\ UNCHANGED <<service_bin_map, certificate_server, signing_key, service_mapping,
                   service_key_passing_sessions>>
    /\ UNCHANGED <<client_certificates, service_to_bin, allowed_keys, clients>>
    /\ UNCHANGED <<hostVars, mainVars, serviceVars, histVars>>
    /\ UNCHANGED <<buildVars, issuerVars, loaderVars>>

\* attest_binary 160-169: the lock is dropped and the report returned
AttestReturn(c) ==
    /\ call[c].pc = "written"
    /\ sessions_lock' = 0
    /\ call' = [call EXCEPT
            ![c].pc = "reported",
            ![c].report =
                [certificate      |-> certificate_server[call[c].rpc_name],
                 current_bin_hash |-> service_bin_map[call[c].rpc_name],
                 nonce            |-> call[c].nonce,
                 service_name     |-> call[c].rpc_name,
                 server_key_share |-> call[c].server_key_share,
                 client_id        |-> call[c].client_id,
                 signature        |-> call[c].sig]]
    /\ UNCHANGED <<service_bin_map, certificate_server, signing_key, service_mapping,
                   service_key_passing_sessions>>
    /\ UNCHANGED <<client_certificates, service_to_bin, allowed_keys, clients>>
    /\ UNCHANGED <<hostVars, mainVars, serviceVars, histVars>>
    /\ UNCHANGED <<buildVars, issuerVars, loaderVars>>

\* verify_certificate 50-64: the local certificate stored under the remote
\* certificate's service name equals the remote one (the issuer key is loaded
\* by into_verifier)
verify_certificate(remote_certificate) ==
    /\ remote_certificate.service_name \in DOMAIN client_certificates
    /\ client_certificates[remote_certificate.service_name] = remote_certificate

\* verify_binary 110: the running hash equals the certified one
HashesMatch(report) == report.current_bin_hash = report.certificate.binary_hash

\* the client serializes the service name of the report
SignDataWithReportName(c, report) ==
    to_vec([cert             |-> report.certificate,
            nonce            |-> call[c].nonce,
            service_name     |-> report.service_name,
            current_bin_hash |-> report.certificate.binary_hash,
            server_key_share |-> report.server_key_share,
            client_id        |-> report.client_id])

\* the client serializes the public service name it was called with
SignDataWithPublicName(c, report) ==
    to_vec([cert             |-> report.certificate,
            nonce            |-> call[c].nonce,
            service_name     |-> call[c].service,
            current_bin_hash |-> report.certificate.binary_hash,
            server_key_share |-> report.server_key_share,
            client_id        |-> report.client_id])

\* the client serializes the nonce of the report
SignDataWithReportNonce(c, report) ==
    to_vec([cert             |-> report.certificate,
            nonce            |-> report.nonce,
            service_name     |-> call[c].bin,
            current_bin_hash |-> report.certificate.binary_hash,
            server_key_share |-> report.server_key_share,
            client_id        |-> report.client_id])

\* verify_binary 121-131: the blob the client serializes for the signature check
ClientSignData(c, report) ==
    to_vec([cert             |-> report.certificate,
            nonce            |-> call[c].nonce,
            service_name     |-> call[c].bin,
            current_bin_hash |-> report.certificate.binary_hash,
            server_key_share |-> report.server_key_share,
            client_id        |-> report.client_id])

\* verify_binary 133-141: the signature check under the accepted key
SignatureVerifies(c, report) ==
    ed25519_verify(allowed_keys, ClientSignData(c, report), report.signature)

\* verify_binary 116-117: the share the client agrees with
PeerShareOfClient(report) == report.server_key_share

\* a failed certificate check is printed but does not return
OutcomeWithoutCertificateReturn(c, report) ==
    IF ~HashesMatch(report) THEN "InvalidAttestation"
    ELSE IF ~SignatureVerifies(c, report) THEN "InvalidAttestation"
    ELSE "Ok"

\* what verify_binary returns for a report: the three checks in order, each
\* failure reduced to InvalidAttestation, else the client id and the key
VerifyOutcome(c, report) ==
    IF ~verify_certificate(report.certificate) THEN "InvalidAttestation"
    ELSE IF ~HashesMatch(report) THEN "InvalidAttestation"
    ELSE IF ~SignatureVerifies(c, report) THEN "InvalidAttestation"
    ELSE "Ok"

\* verify_binary 105-141: the three checks and the key; the locals of the call
\* end with it
verify_binary(c) ==
    /\ call[c].pc = "reported"
    /\ LET report == call[c].report
           kept   == [NoCall EXCEPT !.pc = "done",
                                    !.service = call[c].service,
                                    !.bin = call[c].bin,
                                    !.rpc_name = call[c].rpc_name,
                                    !.nonce = call[c].nonce,
                                    !.usable_key = call[c].usable_key,
                                    !.sign_data = call[c].sign_data,
                                    !.report = report]
       IN  IF VerifyOutcome(c, report) = "Ok"
           THEN call' = [call EXCEPT ![c] = [kept EXCEPT
                    !.result = "Ok",
                    !.client_id = report.client_id,
                    !.verify_data = ClientSignData(c, report),
                    !.aes_key =
                        derive_key_from_shares(call[c].sk, PeerShareOfClient(report))]]
           ELSE call' = [call EXCEPT ![c] = [kept EXCEPT
                    !.result = VerifyOutcome(c, report)]]
    /\ UNCHANGED <<client_certificates, service_to_bin, allowed_keys, clients>>
    /\ UNCHANGED <<hostVars, mainVars, serverVars, serviceVars, histVars>>
    /\ UNCHANGED <<buildVars, issuerVars, loaderVars>>

\* an RPC of a client to the service it attested, with the client id that
\* verify_binary returned; the handler looks the session key up
ServiceRpc(c) ==
    /\ call[c].pc = "done"
    /\ call[c].result = "Ok"
    /\ get_key_for_client(call[c].bin, call[c].client_id)

(***************************************************************************)
(* The connection between a client and the sidecar is plain TCP: a party   *)
(* on the path can change the request and the response.                    *)
(***************************************************************************)
\* the certificates that were ever issued are public files
KnownCertificates ==
    {IssuedCertificate(b) : b \in Bins} \cup {OutdatedCertificate(b) : b \in Bins}

\* the request reaches attest_binary with the name of another binary
Redirect(c) ==
    /\ call[c].pc = "sent"
    /\ call[c].rpc_name = call[c].bin
    /\ \E b \in Bins \ {call[c].bin} : call' = [call EXCEPT ![c].rpc_name = b]
    /\ UNCHANGED <<client_certificates, service_to_bin, allowed_keys, clients>>
    /\ UNCHANGED <<hostVars, mainVars, serverVars, serviceVars, histVars>>
    /\ UNCHANGED <<buildVars, issuerVars, loaderVars>>

\* the response reaches the client with another certificate in it
SwapCertificate(c) ==
    /\ call[c].pc = "reported"
    /\ ~call[c].swapped
    /\ \E cert \in KnownCertificates \ {call[c].report.certificate} :
          call' = [call EXCEPT ![c].report.certificate = cert,
                               ![c].swapped = TRUE]
    /\ UNCHANGED <<client_certificates, service_to_bin, allowed_keys, clients>>
    /\ UNCHANGED <<hostVars, mainVars, serverVars, serviceVars, histVars>>
    /\ UNCHANGED <<buildVars, issuerVars, loaderVars>>

Next ==
    \/ MainHashBin \/ LaunchCreateFifo \/ LaunchNewHandle \/ LaunchSpawn
    \/ enable_fifo \/ LaunchReturn \/ setup_service_key_channel
    \/ register_running_service \/ MainServe
    \/ \E b \in Bins : client_map_state_constructor(b)
    \/ \E b \in Bins : FifoReadHandle_new(b)
    \/ \E b \in Bins : read_session_key(b)
    \/ \E b \in Bins : ReaderInsert(b)
    \/ \E c \in Calls : ServiceRpc(c)
    \/ \E c \in Calls : VerifyStart(c)
    \/ \E c \in Calls : AttestResolve(c)
    \/ \E c \in Calls : AttestLock(c)
    \/ \E c \in Calls : WriteFragment(c)
    \/ \E c \in Calls : AttestReturn(c)
    \/ \E c \in Calls : verify_binary(c)

Spec == Init /\ [][Next]_vars

SpecRace == InitRace /\ [][Next]_vars

\* The sidecar's side of the concurrent calls, with the scheduling of the
\* tokio runtime: a task that is ready to take its next step of attest_binary
\* takes it, and the Mutex is handed to a waiting task once it is free.
NextLive ==
    \/ MainHashBin \/ LaunchCreateFifo \/ LaunchNewHandle \/ LaunchSpawn
    \/ enable_fifo \/ LaunchReturn \/ setup_service_key_channel
    \/ register_running_service \/ MainServe
    \/ \E b \in Bins : client_map_state_constructor(b)
    \/ \E b \in Bins : FifoReadHandle_new(b)
    \/ \E b \in Bins : read_session_key(b)
    \/ \E b \in Bins : ReaderInsert(b)
    \/ \E c \in Calls : VerifyStart(c)
    \/ \E c \in Calls : AttestResolve(c)
    \/ \E c \in Calls : AttestLock(c)
    \/ \E c \in Calls : WriteFragment(c)
    \/ \E c \in Calls : AttestReturn(c)

SpecLive ==
    /\ InitRace
    /\ [][NextLive]_vars
    /\ \A c \in Calls :
           /\ WF_vars(AttestResolve(c))
           /\ SF_vars(AttestLock(c))
           /\ WF_vars(WriteFragment(c))
           /\ WF_vars(AttestReturn(c))

\* the attestation with a party on the path between client and sidecar
NextNet ==
    \/ Next
    \/ \E c \in Calls : Redirect(c)
    \/ \E c \in Calls : SwapCertificate(c)

SpecNet == Init /\ [][NextNet]_vars

\* the reports the party on the path recorded from an earlier attestation of
\* the same deployment, made with the nonce 0 that no later call draws: what
\* attest_binary 111-170 signed and returned for a registered service
RecordedReports ==
    {LET signing_data ==
             [cert             |-> certificate_server[b],
              nonce            |-> 0,
              service_name     |-> b,
              current_bin_hash |-> service_bin_map[b],
              server_key_share |-> compute_public_key(sk),
              client_id        |-> id]
     IN  [certificate      |-> certificate_server[b],
          current_bin_hash |-> service_bin_map[b],
          nonce            |-> 0,
          service_name     |-> b,
          server_key_share |-> compute_public_key(sk),
          client_id        |-> id,
          signature        |-> ed25519_sign(signing_key, to_vec(signing_data))] :
        b \in (DOMAIN certificate_server) \cap (DOMAIN service_bin_map),
        id \in ClientIds, sk \in ServerSks}

\* the response reaches the client as a report recorded earlier
Replay(c) ==
    /\ call[c].pc = "reported"
    /\ ~call[c].swapped
    /\ \E report \in RecordedReports \ {call[c].report} :
          call' = [call EXCEPT ![c].report = report]
    /\ UNCHANGED <<client_certificates, service_to_bin, allowed_keys, clients>>
    /\ UNCHANGED <<hostVars, mainVars, serverVars, serviceVars, histVars>>
    /\ UNCHANGED <<buildVars, issuerVars, loaderVars>>

NextReplay ==
    \/ NextNet
    \/ \E c \in Calls : Replay(c)

\* an honest deployment of both binaries with one client
InitReplay == InitWith(Bins, 1, TRUE)

SpecReplay == InitReplay /\ [][NextReplay]_vars

SpecPartial == InitPartial /\ [][Next]_vars

\* a [service_mapping] table that gives both binaries the service name svc_a
SharedMapping == [b \in Bins |-> "svc_a"]

\* two binaries and an honest deployment whose sidecar config maps the
\* binaries to a service each or both to one service
InitShared ==
    /\ InitMapped(Bins, 1, TRUE, {CertificateStore(Bins)},
                  {ConfigMapping, SharedMapping})
    /\ NoBuild
    /\ NoIssuer
    /\ NoLoader

SpecShared == InitShared /\ [][Next]_vars

(***************************************************************************)
(* The pipe on its own: what the reader thread does with the lines that    *)
(* reach its FIFO, well-formed or not, and with the end of the file.       *)
(***************************************************************************)
\* the writer handle the sidecar holds for the FIFO of b
WriterOf(b) ==
    LET s == CHOOSE s \in DOMAIN service_key_passing_sessions :
                 service_key_passing_sessions[s].fifo_path = b
    IN  service_key_passing_sessions[s]

\* 32-byte key materials handed to write_session_key
PipeKeys == {sskdf_hmac(s, SessionInfo, ZeroSalt) : s \in 1..MaxPipeKey}

\* a KEK that no handle of the sidecar holds
OtherKek == sskdf_hmac(MaxKek + 1, 0, MaxKek + 1)

\* the lines of write_session_key under kek
WrittenLines(kek) ==
    {Concat(LineFragments(kek, n, k, id)) :
        n \in AeadNonces, k \in PipeKeys, id \in ClientIds}

\* lines that differ from a line of write_session_key in one place
DeviatingLines(kek) ==
    LET f      == LineFragments(kek, 1, sskdf_hmac(1, SessionInfo, ZeroSalt), 9)
        nonce  == f[1]
        cipher == f[3]
        id     == f[5]
        Line(n, c, i, end) == n \o <<",">> \o c \o <<",">> \o i \o end
    IN  { nonce \o cipher \o <<",">> \o id \o <<"\n">>,
          Line(nonce, cipher, id \o <<",">>, <<"\n">>),
          <<"\n">>,
          Line(nonce, cipher, id, <<>>),
          Line(SubSeq(nonce, 1, Len(nonce) - 2), cipher, id, <<"\n">>),
          Line(<<"g">> \o Tail(nonce), cipher, id, <<"\n">>),
          Line(nonce, <<"g">> \o Tail(cipher), id, <<"\n">>),
          Line(nonce, Tail(cipher), id, <<"\n">>),
          Line(nonce, <<IF cipher[1] = "0" THEN "1" ELSE "0">> \o Tail(cipher),
               id, <<"\n">>),
          Line(nonce, cipher, <<"x">>, <<"\n">>),
          Line(nonce, cipher, <<>>, <<"\n">>),
          Line(nonce, cipher, <<"+">> \o id, <<"\n">>) }

PipeLines(kek) == WrittenLines(kek) \cup WrittenLines(OtherKek) \cup DeviatingLines(kek)

\* the bytes of one line reach the FIFO of b through the write end that the
\* sidecar holds
PipeWrite(b) ==
    /\ main_pc = "serving"
    /\ fifo_writers[b] > 0
    /\ fifo_readers[b] > 0
    /\ Len(fifo_stream[b]) < MaxPipeLines
    /\ \E line \in PipeLines(WriterOf(b).kek) :
          fifo' = [fifo EXCEPT ![b] = @ \o line]
    /\ fifo_stream' = [fifo_stream EXCEPT ![b] = Append(@, <<0, Len(@) + 1>>)]
    /\ UNCHANGED <<exe_on_disk, fifo_file, fifo_readers, fifo_writers>>
    /\ UNCHANGED <<lines_written, lines_read, takes>>
    /\ UNCHANGED <<mainVars, serverVars, serviceVars, clientVars>>
    /\ UNCHANGED <<buildVars, issuerVars, loaderVars>>

\* main 213: accept fails, unwrap panics and the sidecar process ends; its
\* write ends are closed
SidecarExit ==
    /\ main_pc = "serving"
    /\ main_pc' = "exited"
    /\ fifo_writers' = [b \in Bins |-> 0]
    /\ UNCHANGED <<main_bin, main_hash, main_handle, todo, launch_log>>
    /\ UNCHANGED <<exe_on_disk, fifo_file, fifo, fifo_readers>>
    /\ UNCHANGED <<serverVars, serviceVars, clientVars, histVars>>
    /\ UNCHANGED <<buildVars, issuerVars, loaderVars>>

\* one binary is launched and no client attests
InitPipe == InitWith({"bin_a"}, 0, TRUE)

NextPipe ==
    \/ MainHashBin \/ LaunchCreateFifo \/ LaunchNewHandle \/ LaunchSpawn
    \/ enable_fifo \/ LaunchReturn \/ setup_service_key_channel
    \/ register_running_service \/ MainServe
    \/ \E b \in Bins : client_map_state_constructor(b)
    \/ \E b \in Bins : FifoReadHandle_new(b)
    \/ \E b \in Bins : read_session_key(b)
    \/ \E b \in Bins : ReaderInsert(b)
    \/ \E b \in Bins : PipeWrite(b)
    \/ SidecarExit

SpecPipe == InitPipe /\ [][NextPipe]_vars

(***************************************************************************)
(* The policy hasher: cargo-attest and the after_analysis callback of each *)
(* compiler run (policy_signing/src/lib.rs, utils/dependency.rs).          *)
(***************************************************************************)
attestationVars == <<hostVars, mainVars, serverVars, serviceVars, clientVars, histVars>>

\* BufRead::lines of the hash index: the runs of bytes between newlines; what
\* follows the last newline is a line unless it is empty
IndexLines ==
    LET fields == split(hash_index.bytes, "\n")
    IN  IF fields[Len(fields)] = <<>> THEN SubSeq(fields, 1, Len(fields) - 1)
        ELSE fields

\* cargo-attest main 17-24: the directory is created or kept, the hash index
\* is created or truncated, and cargo starts the compiler runs
CargoAttestMain ==
    /\ cargo_pc = "start"
    /\ cargo_pc' = "running"
    /\ hash_index' = [exists |-> TRUE, bytes |-> <<>>]
    /\ UNCHANGED <<policy_file, rustc, emitted>>
    /\ UNCHANGED <<attestationVars, issuerVars, loaderVars>>

\* Compilation::Stop of after_analysis 177-183
Stopped(j) == [rustc EXCEPT ![j].pc = "done", ![j].result = "Stop"]

\* after_analysis 164-174 with Crate::from_compiler 136-149 and
\* fetch_dependencies 155-161. cargo runs the compiler of a crate once the
\* crates it uses are compiled. A crate that does not use the policy library
\* is left alone; otherwise the impl hashes are collected into a HashMap (98),
\* whose iteration order is one of the orders of its entries, and the used
\* crates are listed in the order the compiler gives.
after_analysis(j) ==
    /\ cargo_pc = "running"
    /\ rustc[j].pc = "waiting"
    /\ \A k \in rustc[j].after : rustc[k].pc = "done" /\ rustc[k].result = "Continue"
    /\ IF SESAME \notin UsedCrates(rustc[j].crate)
       THEN rustc' = [rustc EXCEPT ![j].pc = "done", ![j].result = "Continue"]
       ELSE \E used \in Perms(UsedCrates(rustc[j].crate)),
               local \in Perms(LocalImpls(rustc[j].crate)) :
                rustc' = [rustc EXCEPT ![j].pc = "fetched", ![j].used = used,
                                       ![j].local = local]
    /\ UNCHANGED <<cargo_pc, hash_index, policy_file, emitted>>
    /\ UNCHANGED <<attestationVars, issuerVars, loaderVars>>

\* the used crates are kept whether or not the hash index names them
keep_used_crates(j) ==
    /\ rustc[j].pc = "fetched"
    /\ IF ~hash_index.exists
       THEN rustc' = Stopped(j)
       ELSE rustc' = [rustc EXCEPT ![j].pc = "pruned",
                                   ![j].dependencies_names =
                                       SortNames(Range(rustc[j].used) \ {SESAME})]
    /\ UNCHANGED <<cargo_pc, hash_index, policy_file, emitted>>
    /\ UNCHANGED <<attestationVars, issuerVars, loaderVars>>

\* prune_deps 163-185: without a hash index the call is an error; otherwise
\* the used crates that are lines of the index, sorted
prune_deps(j) ==
    /\ rustc[j].pc = "fetched"
    /\ IF ~hash_index.exists
       THEN rustc' = Stopped(j)
       ELSE LET already_hashed == Range(IndexLines)
                my_deps == {n \in Range(rustc[j].used) : <<n>> \in already_hashed}
            IN  rustc' = [rustc EXCEPT ![j].pc = "pruned",
                                       ![j].dependencies_names = SortNames(my_deps)]
    /\ UNCHANGED <<cargo_pc, hash_index, policy_file, emitted>>
    /\ UNCHANGED <<attestationVars, issuerVars, loaderVars>>

\* the roll-up leaves out the dependencies whose file cannot be read
get_leaves_of_readable(j) ==
    /\ rustc[j].pc = "pruned"
    /\ LET deps     == rustc[j].dependencies_names
           readable == {i \in 1..Len(deps) :
                           policy_file[deps[i]].exists /\ policy_file[deps[i]].lines # <<>>}
           names    == SortNames({deps[i] : i \in readable})
       IN  rustc' = [rustc EXCEPT
               ![j].pc = "leaves",
               ![j].dependencies_names = names,
               ![j].dependencies_hashes =
                   [i \in 1..Len(names) |-> policy_file[names[i]].lines[1]]]
    /\ UNCHANGED <<cargo_pc, hash_index, policy_file, emitted>>
    /\ UNCHANGED <<attestationVars, issuerVars, loaderVars>>

\* get_leaves 187-209: the first line of the policy-hash file of every pruned
\* dependency, in the order of the names; a file that is missing or has no
\* line is an error
get_leaves(j) ==
    /\ rustc[j].pc = "pruned"
    /\ LET deps == rustc[j].dependencies_names
       IN  IF \E i \in 1..Len(deps) :
                  ~policy_file[deps[i]].exists \/ policy_file[deps[i]].lines = <<>>
           THEN rustc' = Stopped(j)
           ELSE rustc' = [rustc EXCEPT
                    ![j].pc = "leaves",
                    ![j].dependencies_hashes =
                        [i \in 1..Len(deps) |-> policy_file[deps[i]].lines[1]]]
    /\ UNCHANGED <<cargo_pc, hash_index, policy_file, emitted>>
    /\ UNCHANGED <<attestationVars, issuerVars, loaderVars>>

\* dump_local_to_file 212-213: File::create makes the file or truncates it
dump_local_to_file_create(j) ==
    /\ rustc[j].pc = "leaves"
    /\ policy_file' = [policy_file EXCEPT ![rustc[j].crate] =
                           [exists |-> TRUE, lines |-> <<>>]]
    /\ rustc' = [rustc EXCEPT ![j].pc = "created"]
    /\ UNCHANGED <<cargo_pc, hash_index, emitted>>
    /\ UNCHANGED <<attestationVars, issuerVars, loaderVars>>

\* register_to_index 240-243, called at 214: the index is opened for append
\* (and created if absent); write! appends the crate name
register_to_index_name(j) ==
    /\ rustc[j].pc = "created"
    /\ hash_index' = [exists |-> TRUE, bytes |-> Append(hash_index.bytes, rustc[j].crate)]
    /\ rustc' = [rustc EXCEPT ![j].pc = "registering"]
    /\ UNCHANGED <<cargo_pc, policy_file, emitted>>
    /\ UNCHANGED <<attestationVars, issuerVars, loaderVars>>

\* register_to_index 242: write! appends the newline with a second write(2)
register_to_index_newline(j) ==
    /\ rustc[j].pc = "registering"
    /\ hash_index' = [hash_index EXCEPT !.bytes = Append(@, "\n")]
    /\ rustc' = [rustc EXCEPT ![j].pc = "registered"]
    /\ UNCHANGED <<cargo_pc, policy_file, emitted>>
    /\ UNCHANGED <<attestationVars, issuerVars, loaderVars>>

\* the summary is the digest of the local hash alone
TotalHashOfLocal(dep_tree_hash, local_hash) == sha256_digest(<<local_hash>>)

\* dump_local_to_file 225-227: the digest of the two hex digests, one after
\* the other
TotalHash(dep_tree_hash, local_hash) == sha256_digest(<<dep_tree_hash, local_hash>>)

\* dump_local_to_file 215-235: the names are zipped with the hashes into a
\* HashMap, which iterates in one of the orders of its entries; both maps are
\* serialized as they iterate and digested, and the summary is written as the
\* first line of the file
dump_local_to_file_summary(j) ==
    /\ rustc[j].pc = "registered"
    /\ LET names  == rustc[j].dependencies_names
           zipped == {<<names[i], rustc[j].dependencies_hashes[i]>> : i \in 1..Len(names)}
       IN  \E deps_hashes_map \in Perms(zipped) :
               LET dep_tree_hash == sha256_digest(map_to_vec(deps_hashes_map))
                   local_hash    == sha256_digest(map_to_vec(rustc[j].local))
                   total_hash    == TotalHash(dep_tree_hash, local_hash)
               IN  /\ rustc' = [rustc EXCEPT ![j].pc = "summary_written",
                                             ![j].deps_hashes_map = deps_hashes_map,
                                             ![j].total_hash = total_hash]
                   /\ policy_file' = [policy_file EXCEPT ![rustc[j].crate].lines =
                                          <<total_hash>>]
    /\ UNCHANGED <<cargo_pc, hash_index, emitted>>
    /\ UNCHANGED <<attestationVars, issuerVars, loaderVars>>

\* dump_local_to_file 229-237: the JsonDumpStruct follows the first line, the
\* maps in the order they iterate; after_analysis returns Continue
dump_local_to_file_json(j) ==
    /\ rustc[j].pc = "summary_written"
    /\ LET expanded ==
               [dependency_hashes  |-> rustc[j].deps_hashes_map,
                local_summary_hash |-> sha256_digest(map_to_vec(rustc[j].local)),
                local_impls_hashes |-> rustc[j].local]
           lines == <<rustc[j].total_hash, to_writer_pretty(expanded)>>
       IN  /\ policy_file' = [policy_file EXCEPT ![rustc[j].crate].lines = lines]
           /\ emitted' = [emitted EXCEPT ![j] = lines]
    /\ rustc' = [rustc EXCEPT ![j].pc = "done", ![j].result = "Continue"]
    /\ UNCHANGED <<cargo_pc, hash_index>>
    /\ UNCHANGED <<attestationVars, issuerVars, loaderVars>>

\* a compiler run of crate c that cargo starts after the runs in after
JobOf(c, after) == [NoJob EXCEPT !.crate = c, !.after = after, !.pc = "waiting"]

\* the policy-hash file a finished build left for a crate
PriorFile(c) ==
    [exists |-> TRUE,
     lines  |-> <<sha256_digest(<<"prior", c>>), to_writer_pretty(<<"prior", c>>)>>]

\* A build of the three crates: cargo-attest starts in a directory that is
\* either new or left by a finished build; dep_a and dep_b are compiled side
\* by side and app after both.
InitBuild ==
    /\ InitAttestation({}, 0, TRUE, {CertificateStore(Bins)})
    /\ NoIssuer
    /\ NoLoader
    /\ cargo_pc = "start"
    /\ \/ /\ hash_index = [exists |-> FALSE, bytes |-> <<>>]
          /\ policy_file = [c \in Crates |-> NoFile]
       \/ /\ hash_index = [exists |-> TRUE,
                            bytes |-> <<"dep_a", "\n", "dep_b", "\n", "app", "\n">>]
          /\ policy_file = [c \in Crates |->
                               IF c \in {"dep_a", "dep_b", "app"} THEN PriorFile(c)
                               ELSE NoFile]
    /\ rustc = [j \in Jobs |->
                   IF j = 1 THEN JobOf("dep_a", {})
                   ELSE IF j = 2 THEN JobOf("dep_b", {})
                   ELSE IF j = 3 THEN JobOf("app", {1, 2})
                   ELSE NoJob]
    /\ emitted = [j \in Jobs |-> <<>>]

NextBuild ==
    \/ CargoAttestMain
    \/ \E j \in Jobs : after_analysis(j)
    \/ \E j \in Jobs : prune_deps(j)
    \/ \E j \in Jobs : get_leaves(j)
    \/ \E j \in Jobs : dump_local_to_file_create(j)
    \/ \E j \in Jobs : register_to_index_name(j)
    \/ \E j \in Jobs : register_to_index_newline(j)
    \/ \E j \in Jobs : dump_local_to_file_summary(j)
    \/ \E j \in Jobs : dump_local_to_file_json(j)

SpecBuild == InitBuild /\ [][NextBuild]_vars

\* A build of three crates that differ in their use of the policy library:
\* dep_a implements the policy trait, util uses the library without an impl
\* block, and plain does not use the library. The three are compiled side by
\* side, in a directory that is new or left by a build of dep_a.
InitCrates ==
    /\ InitAttestation({}, 0, TRUE, {CertificateStore(Bins)})
    /\ NoIssuer
    /\ NoLoader
    /\ cargo_pc = "start"
    /\ \/ /\ hash_index = [exists |-> FALSE, bytes |-> <<>>]
          /\ policy_file = [c \in Crates |-> NoFile]
       \/ /\ hash_index = [exists |-> TRUE, bytes |-> <<"dep_a", "\n">>]
          /\ policy_file = [c \in Crates |->
                               IF c = "dep_a" THEN PriorFile(c) ELSE NoFile]
    /\ rustc = [j \in Jobs |->
                   IF j = 1 THEN JobOf("dep_a", {})
                   ELSE IF j = 2 THEN JobOf("util", {})
                   ELSE IF j = 3 THEN JobOf("plain", {})
                   ELSE NoJob]
    /\ emitted = [j \in Jobs |-> <<>>]

SpecCrates == InitCrates /\ [][NextBuild]_vars

\* the crates that a second compiler run may compile next to the run of dep_a
SecondUnits == {"dep_a", "dep_b"}

\* the runs that the run of app may wait for
AppAfter == {{1}, {1, 2}}

\* Compiler runs that need not be ordered by the crates they use: dep_a is
\* compiled, next to it dep_a a second time or dep_b, and app once the first
\* run or both runs are over, in a directory that is new.
InitUnits ==
    /\ InitAttestation({}, 0, TRUE, {CertificateStore(Bins)})
    /\ NoIssuer
    /\ NoLoader
    /\ cargo_pc = "start"
    /\ hash_index = [exists |-> FALSE, bytes |-> <<>>]
    /\ policy_file = [c \in Crates |-> NoFile]
    /\ \E second \in SecondUnits, after \in AppAfter :
           rustc = [j \in Jobs |->
                       IF j = 1 THEN JobOf("dep_a", {})
                       ELSE IF j = 2 THEN JobOf(second, {})
                       ELSE IF j = 3 THEN JobOf("app", after)
                       ELSE NoJob]
    /\ emitted = [j \in Jobs |-> <<>>]

SpecUnits == InitUnits /\ [][NextBuild]_vars

\* the summary line of the policy-hash file of a dependency
DepSummary(c) == sha256_digest(<<"summary", c>>)

\* the hash index as attest_crate may find it: absent, or the names of some
\* of the dependencies in some order
IndexInputs ==
    {[exists |-> FALSE, bytes |-> <<>>]} \cup
    {[exists |-> TRUE, bytes |-> Concat([i \in 1..Len(p) |-> <<p[i], "\n">>])] :
        p \in UNION {Perms(S) : S \in SUBSET {"dep_a", "dep_b"}}}

\* the policy-hash file of a dependency as get_leaves may find it: missing,
\* empty, with a blank first line before its content, or complete
FileInputs(c) ==
    {NoFile, [exists |-> TRUE, lines |-> <<>>],
     [exists |-> TRUE, lines |-> << <<>>, to_writer_pretty(<<"file", c>>)>>],
     [exists |-> TRUE, lines |-> <<DepSummary(c), to_writer_pretty(<<"file", c>>)>>]}

\* The hasher run twice on app, one run after the other, in a policy_hashes
\* directory drawn from the inputs above.
InitAttest ==
    /\ InitAttestation({}, 0, TRUE, {CertificateStore(Bins)})
    /\ NoIssuer
    /\ NoLoader
    /\ cargo_pc = "running"
    /\ hash_index \in IndexInputs
    /\ policy_file \in [Crates -> UNION {FileInputs(c) : c \in Crates} \cup {NoFile}]
    /\ \A c \in Crates :
           IF c \in UsedCrates("app") THEN policy_file[c] \in FileInputs(c)
           ELSE policy_file[c] = NoFile
    /\ rustc = [j \in Jobs |->
                   IF j = 1 THEN JobOf("app", {})
                   ELSE IF j = 2 THEN JobOf("app", {1})
                   ELSE NoJob]
    /\ emitted = [j \in Jobs |-> <<>>]

NextAttest ==
    \/ \E j \in Jobs : after_analysis(j)
    \/ \E j \in Jobs : prune_deps(j)
    \/ \E j \in Jobs : get_leaves(j)
    \/ \E j \in Jobs : dump_local_to_file_create(j)
    \/ \E j \in Jobs : register_to_index_name(j)
    \/ \E j \in Jobs : register_to_index_newline(j)
    \/ \E j \in Jobs : dump_local_to_file_summary(j)
    \/ \E j \in Jobs : dump_local_to_file_json(j)

SpecAttest == InitAttest /\ [][NextAttest]_vars

(***************************************************************************)
(* The certificate issuer (certificate_generation): main and the functions *)
(* it calls. Hashes are hex strings, as sequences of characters; a digest  *)
(* has DigestLen bytes.                                                    *)
(***************************************************************************)
\* Sha256::finalize of the bytes of a file: DigestLen bytes, distinct for the
\* contents that occur
Sha256Finalize(contents) ==
    [i \in 1..DigestLen |-> (31 * SumSeq(contents) + 7 * i) % 256]

\* the bytes of the executable cargo built for a crate
ElfBytes(n) == <<NameRank(n)>>

\* the summary line the policy hasher wrote for a crate: a hex digest
SummaryLine(c) == hex_encode(Sha256Finalize(<<NameRank(c), 1>>))

\* every regular file counts as a binary
is_regular_file(entry) == entry.kind = "file"

\* is_executable 89-94: metadata succeeds, the entry is a regular file and
\* mode & 0o111 is not zero
is_executable(entry) ==
    /\ entry.kind = "file"
    /\ \E i \in 1..3 : entry.mode[i] % 2 = 1

\* retrieve_hash_from_file 35-48: the first line of the file; a file without
\* a line is an InvalidData error
retrieve_hash_from_file(file) ==
    IF ~file.exists \/ file.lines = <<>> THEN Err ELSE Ok(file.lines[1])

\* merge_maps 118-130: the names of the policy map that the binary map has
merge_maps(policy_map, binary_map) ==
    [k \in (DOMAIN policy_map) \cap (DOMAIN binary_map) |->
        <<policy_map[k], binary_map[k]>>]

\* the signed bytes are the binary hash followed by the policy hash
BinaryThenPolicy(policy_u8, binary_u8) == binary_u8 \o policy_u8

\* gen_certificate 33-34: the policy hash bytes extended with the binary
\* hash bytes
SigningData(policy_u8, binary_u8) == policy_u8 \o binary_u8

\* hex::encode of the 64 bytes of a signature
hex_encode_signature(sig) == <<"hex", sig>>

\* gen_certificate 30-42: both hashes are hex-decoded (expect panics on a
\* string that is not hex) and the concatenation is signed
gen_certificate(service_name, data, key) ==
    LET policy_u8 == hex_decode(data[1])
        binary_u8 == hex_decode(data[2])
    IN  IF ~policy_u8.ok \/ ~binary_u8.ok THEN Err
        ELSE Ok([service_name |-> service_name,
                 policy_hash  |-> data[1],
                 binary_hash  |-> data[2],
                 signature    |-> hex_encode_signature(
                     ed25519_sign(key, SigningData(policy_u8.val, binary_u8.val)))])

\* main returns or panics
MainEnds(result) == [issuer EXCEPT !.result = result]

\* get_signing_key 17-21, called at main 164: a key file that cannot be read
\* or parsed is a panic
get_signing_key ==
    /\ issuer_pc = "start"
    /\ IF issuer.key_file = "pkcs8"
       THEN /\ issuer' = [issuer EXCEPT !.key = IssuerKey]
            /\ issuer_pc' = "key"
       ELSE /\ issuer' = MainEnds("panic")
            /\ issuer_pc' = "done"
    /\ UNCHANGED <<target_release, certificates_dir>>
    /\ UNCHANGED <<attestationVars, buildVars, loaderVars>>

\* find_binaries_in_target 96-115: the executables among the entries of
\* target/release
find_binaries_in_target ==
    /\ issuer_pc = "key"
    /\ issuer' = [issuer EXCEPT !.binaries =
                      {n \in TargetEntries : is_executable(target_release[n])}]
    /\ issuer_pc' = "found"
    /\ UNCHANGED <<target_release, certificates_dir>>
    /\ UNCHANGED <<attestationVars, buildVars, loaderVars>>

\* match_policies_to_bin 50-87: for every binary, the entry of policy_hashes
\* named <binary>_policy_hashes.json, if any, gives its policy hash; an error
\* of retrieve_hash_from_file is returned by main (172)
match_policies_to_bin ==
    /\ issuer_pc = "found"
    /\ LET matched == {n \in issuer.binaries : policy_file[n].exists}
       IN  IF \E n \in matched : ~retrieve_hash_from_file(policy_file[n]).ok
           THEN /\ issuer' = MainEnds("Err")
                /\ issuer_pc' = "done"
           ELSE /\ issuer' = [issuer EXCEPT !.pols =
                       [n \in matched |-> retrieve_hash_from_file(policy_file[n]).val]]
                /\ issuer_pc' = "matched"
    /\ UNCHANGED <<target_release, certificates_dir>>
    /\ UNCHANGED <<attestationVars, buildVars, loaderVars>>

\* hash_binaries 133-155: the hex SHA-256 of the contents of every binary
hash_binaries ==
    /\ issuer_pc = "matched"
    /\ issuer' = [issuer EXCEPT !.bin_hashes =
                      [n \in issuer.binaries |->
                          hex_encode(Sha256Finalize(target_release[n].contents))]]
    /\ issuer_pc' = "hashed"
    /\ UNCHANGED <<target_release, certificates_dir>>
    /\ UNCHANGED <<attestationVars, buildVars, loaderVars>>

\* main 175-185: the maps are merged and a certificate is generated for every
\* merged name before any file is written; a panic of gen_certificate ends main
collect_certificates ==
    /\ issuer_pc = "hashed"
    /\ LET merged == merge_maps(issuer.pols, issuer.bin_hashes)
           gen(k) == gen_certificate(k, merged[k], issuer.key)
       IN  IF \E k \in DOMAIN merged : ~gen(k).ok
           THEN /\ issuer' = MainEnds("panic")
                /\ issuer_pc' = "done"
           ELSE /\ issuer' = [issuer EXCEPT !.certificates =
                                  [k \in DOMAIN merged |-> gen(k).val]]
                /\ issuer_pc' = "generated"
    /\ UNCHANGED <<target_release, certificates_dir>>
    /\ UNCHANGED <<attestationVars, buildVars, loaderVars>>

\* main 197-199: the loop takes the certificates in the order the HashMap
\* iterates; File::create makes <name>_certificate.json or truncates it
create_certificate_file(k) ==
    /\ issuer_pc = "generated"
    /\ issuer.current = ""
    /\ k \in (DOMAIN issuer.certificates) \ issuer.written
    /\ certificates_dir' = [certificates_dir EXCEPT ![k] =
                               [exists |-> TRUE, certificate |-> <<>>]]
    /\ issuer' = [issuer EXCEPT !.current = k]
    /\ UNCHANGED <<issuer_pc, target_release>>
    /\ UNCHANGED <<attestationVars, buildVars, loaderVars>>

\* main 200: serde_json::to_writer_pretty writes the certificate
write_certificate ==
    /\ issuer_pc = "generated"
    /\ issuer.current # ""
    /\ certificates_dir' = [certificates_dir EXCEPT ![issuer.current].certificate =
                               <<issuer.certificates[issuer.current]>>]
    /\ issuer' = [issuer EXCEPT !.current = "", !.written = @ \cup {issuer.current}]
    /\ UNCHANGED <<issuer_pc, target_release>>
    /\ UNCHANGED <<attestationVars, buildVars, loaderVars>>

\* main 203: Ok(()) after the loop
main_returns ==
    /\ issuer_pc = "generated"
    /\ issuer.current = ""
    /\ issuer.written = DOMAIN issuer.certificates
    /\ issuer' = MainEnds("Ok")
    /\ issuer_pc' = "done"
    /\ UNCHANGED <<target_release, certificates_dir>>
    /\ UNCHANGED <<attestationVars, buildVars, loaderVars>>

\* an entry of target/release: absent, an executable, a regular file without
\* an execute bit, or a directory
EntryInputs(n) ==
    {NoEntry,
     [kind |-> "file", mode |-> <<7, 5, 5>>, contents |-> ElfBytes(n)],
     [kind |-> "file", mode |-> <<6, 4, 4>>, contents |-> ElfBytes(n)],
     [kind |-> "dir", mode |-> <<7, 5, 5>>, contents |-> <<>>]}

\* the policy-hash file of a crate as the issuer may find it: missing, empty,
\* with a blank first line, with a first line that is not hex, or as the
\* hasher wrote it
PolicyInputs(c) ==
    {NoFile,
     [exists |-> TRUE, lines |-> <<>>],
     [exists |-> TRUE, lines |-> << <<>>, <<"{">> >>],
     [exists |-> TRUE, lines |-> << <<"{">> >>],
     [exists |-> TRUE, lines |-> <<SummaryLine(c), <<"{">>>>]}

\* One run of the issuer on a project directory drawn from the inputs above;
\* plain does not use the policy library and has no policy-hash file.
InitIssue ==
    /\ InitAttestation({}, 0, TRUE, {CertificateStore(Bins)})
    /\ NoLoader
    /\ cargo_pc = "none"
    /\ hash_index = [exists |-> FALSE, bytes |-> <<>>]
    /\ policy_file \in [Crates -> UNION {PolicyInputs(c) : c \in Crates}]
    /\ \A c \in Crates :
           IF c \in {"app", "dep_a"} THEN policy_file[c] \in PolicyInputs(c)
           ELSE policy_file[c] = NoFile
    /\ rustc = [j \in Jobs |-> NoJob]
    /\ emitted = [j \in Jobs |-> <<>>]
    /\ issuer_pc = "start"
    /\ target_release \in [TargetEntries -> UNION {EntryInputs(n) : n \in TargetEntries}]
    /\ \A n \in TargetEntries : target_release[n] \in EntryInputs(n)
    /\ issuer \in {[NoMain EXCEPT !.key_file = f] : f \in {"pkcs8", "missing"}}
    /\ certificates_dir = [n \in TargetEntries |-> NoCertificateFile]

NextIssue ==
    \/ get_signing_key
    \/ find_binaries_in_target
    \/ match_policies_to_bin
    \/ hash_binaries
    \/ collect_certificates
    \/ \E k \in TargetEntries : create_certificate_file(k)
    \/ write_certificate
    \/ main_returns

SpecIssue == InitIssue /\ [][NextIssue]_vars

(***************************************************************************)
(* CertificateLoader (hoodini-core certificate.rs): register_service and   *)
(* load_certificate_key called on a new loader, with files of a directory  *)
(* that does not change.                                                   *)
(***************************************************************************)
\* the certificate files a caller may name: two issued certificates, the
\* certificate of an older build, a file that is not a certificate, and a
\* path without a file
CertificateFiles ==
    [a_json     |-> [exists |-> TRUE, json |-> <<IssuedCertificate("bin_a")>>],
     b_json     |-> [exists |-> TRUE, json |-> <<IssuedCertificate("bin_b")>>],
     a_old_json |-> [exists |-> TRUE, json |-> <<OutdatedCertificate("bin_a")>>],
     bad_json   |-> [exists |-> TRUE, json |-> <<>>],
     no_json    |-> [exists |-> FALSE, json |-> <<>>]]

\* the header of a DER public key file, shortened
DerHeader == <<48, 42>>

\* the key files a caller may name: two DER public keys, a file shorter than
\* a key, and a path without a file
KeyFiles ==
    [issuer_der |-> [exists |-> TRUE, bytes |-> DerHeader \o [i \in 1..KEY_LEN |-> 1]],
     other_der  |-> [exists |-> TRUE, bytes |-> DerHeader \o [i \in 1..KEY_LEN |-> 2]],
     short_der  |-> [exists |-> TRUE, bytes |-> DerHeader],
     no_der     |-> [exists |-> FALSE, bytes |-> <<>>]]

\* the certificate is inserted before its name is compared
InsertThenCompare(ld, file, service_name) ==
    IF ~file.exists THEN [result |-> "IoError", value |-> FALSE, loader |-> ld]
    ELSE IF file.json = <<>> THEN [result |-> "AttestDataMalformedError", value |-> FALSE, loader |-> ld]
    ELSE LET inserted == [ld EXCEPT !.certificates =
                              MapInsert(@, service_name, file.json[1])]
         IN  IF service_name # file.json[1].service_name
             THEN [result |-> "ServiceMismatchError", value |-> FALSE, loader |-> inserted]
             ELSE [result |-> "Ok", value |-> service_name \notin DOMAIN ld.certificates,
                   loader |-> inserted]

\* a certificate is stored only under a name that has none yet
RegisterKeepsFirst(ld, file, service_name) ==
    IF ~file.exists THEN [result |-> "IoError", value |-> FALSE, loader |-> ld]
    ELSE IF file.json = <<>> THEN [result |-> "AttestDataMalformedError", value |-> FALSE, loader |-> ld]
    ELSE IF service_name # file.json[1].service_name
    THEN [result |-> "ServiceMismatchError", value |-> FALSE, loader |-> ld]
    ELSE [result |-> "Ok", value |-> service_name \notin DOMAIN ld.certificates,
          loader |-> [ld EXCEPT !.certificates =
                          MapInsertIfAbsent(@, service_name, file.json[1])]]

\* register_service 30-45 on the loader ld: the result, the bool of an Ok
\* (the name was new) and the loader after
RegisterService(ld, file, service_name) ==
    IF ~file.exists THEN [result |-> "IoError", value |-> FALSE, loader |-> ld]
    ELSE IF file.json = <<>> THEN [result |-> "AttestDataMalformedError", value |-> FALSE, loader |-> ld]
    ELSE IF service_name # file.json[1].service_name
    THEN [result |-> "ServiceMismatchError", value |-> FALSE, loader |-> ld]
    ELSE [result |-> "Ok", value |-> service_name \notin DOMAIN ld.certificates,
          loader |-> [ld EXCEPT !.certificates =
                          MapInsert(@, service_name, file.json[1])]]

\* the key file is read whether or not a key is loaded
LoadEveryTime(ld, file) ==
    IF ~file.exists THEN [result |-> "IoError", value |-> FALSE, loader |-> ld]
    ELSE IF Len(file.bytes) < KEY_LEN THEN [result |-> "panic", value |-> FALSE, loader |-> ld]
    ELSE [result |-> "Ok", value |-> TRUE,
          loader |-> [ld EXCEPT !.accepted_keys =
                          SubSeq(file.bytes, Len(file.bytes) - KEY_LEN + 1,
                                 Len(file.bytes))]]

\* load_certificate_key 70-84 on the loader ld: Ok(false) and nothing is read
\* when a key is loaded; otherwise the key is the last 32 bytes of the file, and the slice
\* of a shorter file panics
LoadCertificateKey(ld, file) ==
    IF ld.accepted_keys # "None" THEN [result |-> "Ok", value |-> FALSE, loader |-> ld]
    ELSE IF ~file.exists THEN [result |-> "IoError", value |-> FALSE, loader |-> ld]
    ELSE IF Len(file.bytes) < KEY_LEN THEN [result |-> "panic", value |-> FALSE, loader |-> ld]
    ELSE [result |-> "Ok", value |-> TRUE,
          loader |-> [ld EXCEPT !.accepted_keys =
                          SubSeq(file.bytes, Len(file.bytes) - KEY_LEN + 1,
                                 Len(file.bytes))]]

\* the thread that owns the loader has not panicked and may call again
LoaderCallable ==
    /\ Len(loader_log) < MaxLoaderCalls
    /\ \A i \in 1..Len(loader_log) : loader_log[i].result # "panic"

\* a call of register_service 30-45
register_service(path, service_name) ==
    /\ LoaderCallable
    /\ LET out == RegisterService(loader, CertificateFiles[path], service_name)
       IN  /\ loader' = out.loader
           /\ loader_log' = Append(loader_log,
                  [op |-> "register_service", path |-> path,
                   service_name |-> service_name, result |-> out.result,
                   value |-> out.value])
    /\ UNCHANGED <<attestationVars, buildVars, issuerVars>>

\* a call of load_certificate_key 70-84
load_certificate_key(path) ==
    /\ LoaderCallable
    /\ LET out == LoadCertificateKey(loader, KeyFiles[path])
       IN  /\ loader' = out.loader
           /\ loader_log' = Append(loader_log,
                  [op |-> "load_certificate_key", path |-> path,
                   service_name |-> "", result |-> out.result,
                   value |-> out.value])
    /\ UNCHANGED <<attestationVars, buildVars, issuerVars>>

InitLoader ==
    /\ InitAttestation({}, 0, TRUE, {CertificateStore(Bins)})
    /\ NoBuild
    /\ NoIssuer
    /\ NoLoader

NextLoader ==
    \/ \E path \in DOMAIN CertificateFiles, service_name \in Bins :
           register_service(path, service_name)
    \/ \E path \in DOMAIN KeyFiles : load_certificate_key(path)

SpecLoader == InitLoader /\ [][NextLoader]_vars

\* a call of register_bin_mapping 101-103
register_bin_mapping(bin, service) ==
    /\ LoaderCallable
    /\ loader' = [loader EXCEPT !.service_to_bin = MapInsert(@, service, bin)]
    /\ loader_log' = Append(loader_log,
           [op |-> "register_bin_mapping", path |-> "",
            service_name |-> service, result |-> "Ok", value |-> TRUE])
    /\ UNCHANGED <<attestationVars, buildVars, issuerVars>>

\* get_certificate 158-162: the certificate stored under the name, if any
get_certificate(ld, service_name) ==
    IF service_name \in DOMAIN ld.certificates
    THEN <<ld.certificates[service_name]>>
    ELSE <<>>

NextMapping ==
    \/ NextLoader
    \/ \E bin \in Bins, service \in Services : register_bin_mapping(bin, service)

\* a loader on which the three registration methods are called in any order
SpecMapping == InitLoader /\ [][NextMapping]_vars

(***************************************************************************)
(* Properties.                                                             *)
(***************************************************************************)
\* the KEK of the reader thread of b, as FifoReadHandle::new decodes it
ReaderKek(b) ==
    IF Len(reader[b].kek) = KEY_LEN THEN reader[b].kek
    ELSE hex_decode(reader[b].kek).val

\* the pairs of s that carry client id
WithId(s, id) == {i \in 1..Len(s) : s[i].client_id = id}

\* C1: for every attestation that an honest client verified, the session key
\* the client derived from (its private key, report.server_key_share) equals
\* the key the sidecar derived from (its private key, the client's share),
\* and it is the 32-byte key the reader thread decrypts from the FIFO line
\* that carries report.client_id: the line the call wrote decrypts under the
\* reader's KEK to (client_id, that key), and every pair the reader returned
\* for a client id that a single line carries holds that key.
C1_SessionKeyAgreement ==
    \A c \in Calls :
        /\ call[c].pc \in {"written", "reported"} =>
              ParseLine(ReaderKek(call[c].bin), Concat(call[c].frags))
                  = Ok([client_id |-> call[c].client_id,
                        key |-> call[c].usable_key])
        /\ (call[c].pc = "done" /\ call[c].result = "Ok") =>
              /\ Len(call[c].aes_key) = KEY_LEN
              /\ call[c].aes_key = call[c].usable_key
              /\ call[c].client_id = call[c].report.client_id
              /\ Cardinality(WithId(lines_written[call[c].bin], call[c].client_id)) = 1
                    => \A i \in WithId(lines_read[call[c].bin], call[c].client_id) :
                          lines_read[call[c].bin][i].key = call[c].aes_key

\* two verified clients of one service with different keys, and the reader has
\* returned the pair of one of them
C1_Witness ==
    \E c, d \in Calls :
        /\ call[c].pc = "done" /\ call[c].result = "Ok"
        /\ call[d].pc = "done" /\ call[d].result = "Ok"
        /\ call[c].aes_key # call[d].aes_key
        /\ call[c].client_id # call[d].client_id
        /\ \E i \in 1..Len(lines_read[call[c].bin]) :
              lines_read[call[c].bin][i] =
                  [client_id |-> call[c].client_id, key |-> call[c].aes_key]

\* verify_binary of call c has returned after the sidecar answered with a report
Verified(c) == call[c].pc = "done" /\ call[c].report # <<>>

\* the executable that the sidecar hashed at start is not the certified one
Tampered(b) ==
    /\ b \in DOMAIN service_bin_map
    /\ service_bin_map[b] # certificate_server[b].binary_hash

\* C2: whenever verify_binary returns Ok, report.certificate.binary_hash equals
\* report.current_bin_hash and both are the SHA-256 the sidecar computed over
\* the executable when it launched it; and if that hash differs from the
\* certificate's binary_hash, no verify_binary for the service returns Ok and
\* every one that the sidecar answered returns InvalidAttestation.
C2_AttestationBinding ==
    \A c \in Calls :
        /\ (call[c].pc = "done" /\ call[c].result = "Ok") =>
              /\ Verified(c)
              /\ call[c].report.certificate.binary_hash
                    = call[c].report.current_bin_hash
              /\ call[c].report.current_bin_hash = service_bin_map[call[c].bin]
              /\ service_bin_map[call[c].bin]
                    = Sha256Hex(call[c].bin, exe_on_disk[call[c].bin])
        /\ (call[c].pc = "done" /\ Tampered(call[c].bin)) =>
              /\ call[c].result # "Ok"
              /\ Verified(c) => call[c].result = "InvalidAttestation"

\* a client holding the sidecar's certificate and key is answered for a
\* tampered executable and rejects
C2_Witness ==
    \E c \in Calls :
        /\ Verified(c)
        /\ Tampered(call[c].bin)
        /\ exe_on_disk[call[c].bin] = "flipped"
        /\ verify_certificate(call[c].report.certificate)
        /\ allowed_keys = signing_key
        /\ call[c].result = "InvalidAttestation"

C9_SameSigningBlob ==
    \A c \in Calls :
        ( /\ Verified(c)
          /\ ~Tampered(call[c].bin)
          /\ client_certificates[call[c].bin] = certificate_server[call[c].bin] )
        => /\ ClientSignData(c, call[c].report) = call[c].sign_data
           /\ call[c].report.signature
                 = ed25519_sign(signing_key, ClientSignData(c, call[c].report))
           /\ allowed_keys = signing_key =>
                 /\ call[c].result = "Ok"
                 /\ call[c].verify_data = call[c].sign_data

\* a verification that succeeded on a blob equal to the signed one
C9_Witness ==
    \E c \in Calls :
        /\ Verified(c)
        /\ call[c].result = "Ok"
        /\ call[c].sign_data # <<>>
        /\ call[c].verify_data = call[c].sign_data
        /\ call[c].service # call[c].bin

\* the get_key_for_client calls on the map of b that returned the key of id
TakenOf(b, id) ==
    {i \in 1..Len(takes) :
        takes[i].ok /\ takes[i].bin = b /\ takes[i].client_id = id}

\* this step is a get_key_for_client(id) on the map of b that returns a key
TakeStep(b, id) ==
    /\ Len(takes') = Len(takes) + 1
    /\ takes'[Len(takes')].ok
    /\ takes'[Len(takes')].bin = b
    /\ takes'[Len(takes')].client_id = id

\* C4: a get_key_for_client(id) that returns a key returns the entry of id and
\* removes it, so that a later get_key_for_client(id) fails unless the reader
\* thread inserted an entry for id in between (only the reader's insertion
\* puts an id into the map); each inserted entry is returned to at most one
\* caller: the calls that returned a key for id, plus the entry still in the
\* map, never outnumber the pairs the reader returned for id.
C4_Step ==
    \A b \in Bins, id \in ClientIds :
        /\ TakeStep(b, id) =>
              /\ id \in DOMAIN CLIENT_MAP[b]
              /\ takes'[Len(takes')].key = CLIENT_MAP[b][id]
              /\ id \notin DOMAIN CLIENT_MAP'[b]
        /\ (id \notin DOMAIN CLIENT_MAP[b] /\ id \in DOMAIN CLIENT_MAP'[b]) =>
              /\ reader[b].pc = "got"
              /\ reader[b].got.client_id = id
              /\ takes' = takes
        /\ Cardinality(TakenOf(b, id))' + (IF id \in DOMAIN CLIENT_MAP'[b] THEN 1 ELSE 0)
              <= Cardinality(WithId(lines_read[b], id))'

C4_AtMostOnce == [][C4_Step]_vars

\* the key of one client id was returned, the next call for it failed, and the
\* reader had returned a single pair for it
C4_Witness ==
    \E i, j \in 1..Len(takes) :
        /\ i < j
        /\ takes[i].ok /\ ~takes[j].ok
        /\ takes[i].bin = takes[j].bin
        /\ takes[i].client_id = takes[j].client_id
        /\ Cardinality(WithId(lines_read[takes[i].bin], takes[i].client_id)) = 1

\* the write! of a line is made of this many write(2) calls
FragmentsPerLine == Len(LineFragments(sskdf_hmac(1, 1, 1), 1, sskdf_hmac(1, 1, 1), 9))

\* the calls that are inside write_session_key for the FIFO of b
InWriteSessionKey(b) ==
    {c \in Calls : call[c].pc \in {"writing", "written"} /\ call[c].bin = b}

\* C7: the FIFO line of an attestation is written entirely while the writer
\* lock is held: a call inside write_session_key holds the lock, at most one
\* call is inside write_session_key for a service at a time, and in the byte
\* stream of a FIFO the writes of one line are consecutive and in order, each
\* line starting only after the line before it is complete.
C7_LineWrittenUnderLock ==
    \A b \in Bins :
        /\ Cardinality(InWriteSessionKey(b)) <= 1
        /\ \A c \in InWriteSessionKey(b) : sessions_lock = c
        /\ \A i \in 1..Len(fifo_stream[b]) :
              LET w == fifo_stream[b][i]
              IN  IF w[2] = 1
                  THEN i = 1 \/ fifo_stream[b][i - 1][2] = FragmentsPerLine
                  ELSE /\ i > 1
                       /\ fifo_stream[b][i - 1] = <<w[1], w[2] - 1>>

\* one call is in the middle of its line while another waits for the lock
\* behind a complete line
C7_Witness ==
    \E c, d \in Calls :
        /\ c # d
        /\ call[c].pc = "writing"
        /\ call[c].written \in 2..(FragmentsPerLine - 1)
        /\ call[d].pc = "signed"
        /\ call[d].bin = call[c].bin
        /\ sessions_lock = c

IsPrefix(s, t) == Len(s) <= Len(t) /\ s = SubSeq(t, 1, Len(s))

\* every byte written to the FIFO of b has been consumed and its reader thread
\* waits for the next line
Quiescent(b) ==
    /\ fifo[b] = <<>>
    /\ reader[b].pc = "reading"
    /\ InWriteSessionKey(b) = {}

\* C6: for one service's FIFO, the sequence of (client_id, key) pairs returned
\* by the successive read_session_key calls is the sequence of lines written
\* by attest_binary calls in the order they acquired the writer lock: what was
\* returned so far is a prefix of what was written, and once the reader has
\* consumed everything written no line has been skipped.
C6_ReadOrderIsWriteOrder ==
    \A b \in Bins :
        /\ IsPrefix(lines_read[b], lines_written[b])
        /\ Quiescent(b) => lines_read[b] = lines_written[b]

\* client c has verified an attestation of binary b
VerifiedFor(c, b) ==
    call[c].pc = "done" /\ call[c].result = "Ok" /\ call[c].bin = b

\* C5: when two clients attest concurrently against the same service, then
\* for every timing of the two FIFO writes relative to the reader thread the
\* map of the service ends up with two distinct client_id -> key entries, and
\* a get_key_for_client removes exactly the entry of its own client id: once
\* the reader has consumed what was written, the entry of each of the two
\* clients is in the map with the client's key unless a get_key_for_client
\* for that client's id returned it.
C5_TwoDistinctEntries ==
    \A b \in Bins : \A c, d \in Calls :
        ( /\ c # d
          /\ VerifiedFor(c, b) /\ VerifiedFor(d, b)
          /\ call[c].client_id # call[d].client_id
          /\ Quiescent(b) )
        => \A x \in {c, d} :
              \/ /\ call[x].client_id \in DOMAIN CLIENT_MAP[b]
                 /\ CLIENT_MAP[b][call[x].client_id] = call[x].aes_key
              \/ \E i \in TakenOf(b, call[x].client_id) :
                    takes[i].key = call[x].aes_key

\* the attest_binary calls that returned a report for binary b
Reported(b) ==
    {c \in Calls : call[c].bin = b /\ call[c].report # <<>>}

\* C8: each attest_binary call that returned a report has written exactly one
\* line to the FIFO of the service its binary name maps to and none to the
\* FIFO of another service, the key of that line is the session key of the
\* call, and the service observes exactly one line per successful
\* attestation: once its reader has consumed what was written, it has
\* returned as many pairs as attestations succeeded.
C8_OneLinePerAttestation ==
    \A b \in Bins :
        /\ \A c \in Reported(b) :
              /\ \A k \in 1..FragmentsPerLine :
                    Cardinality({i \in 1..Len(fifo_stream[b]) :
                                    fifo_stream[b][i] = <<c, k>>}) = 1
              /\ \A o \in Bins \ {b} :
                    \A i \in 1..Len(fifo_stream[o]) : fifo_stream[o][i][1] # c
              /\ \E i \in 1..Len(lines_written[b]) :
                    lines_written[b][i] = [client_id |-> call[c].report.client_id,
                                           key |-> call[c].usable_key]
        /\ Len(lines_written[b])
              = Cardinality(Reported(b) \cup {c \in Calls : call[c].pc = "written"
                                                            /\ call[c].bin = b})
        /\ Quiescent(b) => Len(lines_read[b]) = Cardinality(Reported(b))

\* the events of launch_binary in the order of its statements
LaunchOrder == <<"create_fifo", "spawn", "open_writer", "return">>

\* C10: in launch_binary the FIFO is created (whatever was at its path is
\* replaced), then the child is spawned, then the writer end is opened; the
\* writer end is never open before the child has been spawned, launch_binary
\* returns only once the writer end is open, and write_session_key runs only
\* on a handle whose writer end has been opened.
C10_LaunchOrder ==
    /\ \A b \in Bins :
          /\ IsPrefix(launch_log[b], LaunchOrder)
          /\ launch_log[b] # <<>> => fifo_file[b] = "fifo"
          /\ fifo_writers[b] > 0 => child[b] # "none"
          /\ Len(launch_log[b]) = Len(LaunchOrder) => fifo_writers[b] > 0
    /\ main_pc = "launched" => main_handle.handle = "open"
    /\ \A s \in DOMAIN service_key_passing_sessions :
          /\ service_key_passing_sessions[s].handle = "open"
          /\ fifo_writers[service_key_passing_sessions[s].fifo_path] > 0
    /\ \A c \in Calls :
          call[c].pc \in {"writing", "written"} =>
              /\ call[c].target \in DOMAIN service_key_passing_sessions
              /\ service_key_passing_sessions[call[c].target].handle = "open"

\* both binaries are launched, the stale file of bin_a has been replaced, and
\* a call is writing its line through the opened writer
C10_Witness ==
    /\ \A b \in Bins : launch_log[b] = LaunchOrder
    /\ fifo_file["bin_a"] = "fifo"
    /\ \E c \in Calls : call[c].pc = "writing" /\ call[c].written > 0

\* C11: verify_binary accepts a report only if report.certificate equals, on
\* service_name, policy_hash, binary_hash and signature, the certificate the
\* client stores for the binary identifier it requested (the reverse mapping
\* of the target service): equality with another certificate that the client
\* holds is not enough.
C11_CertificateOfRequestedBinary ==
    \A c \in Calls :
        (Verified(c) /\ call[c].result = "Ok") =>
            LET local == client_certificates[call[c].bin]
                remote == call[c].report.certificate
            IN  /\ call[c].bin \in DOMAIN client_certificates
                /\ remote.service_name = local.service_name
                /\ remote.policy_hash = local.policy_hash
                /\ remote.binary_hash = local.binary_hash
                /\ remote.signature = local.signature
                /\ remote.service_name = call[c].bin

\* a report whose certificate is one the client holds, for another binary than
\* the requested one, with matching hashes and a signature of the accepted
\* key, was rejected
C11_Witness ==
    \E c \in Calls :
        /\ Verified(c)
        /\ verify_certificate(call[c].report.certificate)
        /\ call[c].report.certificate # client_certificates[call[c].bin]
        /\ HashesMatch(call[c].report)
        /\ call[c].report.signature[2] = allowed_keys
        /\ call[c].result = "InvalidAttestation"

\* attest_binary of call c is about to fail a lookup: its service name is
\* missing from the binary-hash map or has no certificate, or the service it
\* resolves to has no FIFO writer
LookupFails(c) ==
    \/ /\ call[c].pc = "sent"
       /\ \/ call[c].rpc_name \notin DOMAIN service_bin_map
          \/ call[c].rpc_name \notin DOMAIN certificate_server
    \/ /\ call[c].pc = "signed"
       /\ \/ call[c].rpc_name \notin DOMAIN service_mapping
          \/ service_mapping[call[c].rpc_name]
                \notin DOMAIN service_key_passing_sessions

\* C12: an attest_binary call whose service name is missing from the
\* binary-hash map, or has no certificate, or whose resolved service has no
\* FIFO writer, fails as an RPC failure of that call only: the step writes
\* nothing to any FIFO, the call holds no lock afterwards, the other calls and
\* the state of the sidecar are unchanged and the sidecar is still serving;
\* a finished call never holds the writer lock.
C12_Step ==
    \A c \in Calls :
        /\ (LookupFails(c) /\ call'[c] # call[c]) =>
              /\ call'[c].pc = "done"
              /\ call'[c].result = "NetworkError"
              /\ UNCHANGED <<fifo, fifo_stream, lines_written>>
              /\ sessions_lock' = sessions_lock
              /\ sessions_lock' # c
              /\ main_pc' = "serving"
              /\ UNCHANGED <<service_bin_map, certificate_server, signing_key,
                             service_mapping, service_key_passing_sessions>>
              /\ \A d \in Calls \ {c} : call'[d] = call[d]
        /\ call'[c].pc = "done" => sessions_lock' # c

C12_CallFailsAlone == [][C12_Step]_vars

\* a call for a binary missing from the binary-hash map has failed, nothing of
\* it is in a FIFO, and a call for another service was served and verified
C12_Witness ==
    \E c, d \in Calls :
        /\ call[c].pc = "done" /\ call[c].result = "NetworkError"
        /\ call[c].bin \notin DOMAIN service_bin_map
        /\ call[d].pc = "done" /\ call[d].result = "Ok"
        /\ call[d].bin # call[c].bin
        /\ c < d
        /\ main_pc = "serving"
        /\ sessions_lock = 0
        /\ \A b \in Bins : \A i \in 1..Len(fifo_stream[b]) : fifo_stream[b][i][1] # c

\* C13: once main serves, no step changes the service -> binary-hash map, the
\* binary -> service mapping, the certificate store, the signing key or the set
\* of registered writers; the sidecar writes to a FIFO only through the writer
\* of the service that the name of the call holding the lock resolves to, and
\* the lock changes only by that call taking or dropping it.
C13_Step ==
    main_pc = "serving" =>
        /\ UNCHANGED <<service_bin_map, service_mapping, certificate_server,
                       signing_key, service_key_passing_sessions>>
        /\ \A b \in Bins :
              fifo_stream'[b] # fifo_stream[b] =>
                  \E c \in Calls :
                      /\ sessions_lock = c
                      /\ call[c].rpc_name \in DOMAIN service_mapping
                      /\ service_mapping[call[c].rpc_name]
                            \in DOMAIN service_key_passing_sessions
                      /\ service_key_passing_sessions[
                             service_mapping[call[c].rpc_name]].fifo_path = b
                      /\ fifo_stream'[b] =
                             Append(fifo_stream[b], <<c, call[c].written + 1>>)
        /\ sessions_lock' # sessions_lock =>
              \E c \in Calls :
                  /\ call'[c] # call[c]
                  /\ {sessions_lock, sessions_lock'} = {0, c}

C13_OnlyResolvedWriterMutated == [][C13_Step]_vars

\* a call was answered after its line went to the FIFO of the service its name
\* resolves to, with the startup maps as main built them
C13_Witness ==
    \E c \in Calls :
        /\ main_pc = "serving"
        /\ call[c].pc = "reported"
        /\ call[c].target = service_mapping[call[c].rpc_name]
        /\ \E i \in 1..Len(fifo_stream[
                 service_key_passing_sessions[call[c].target].fifo_path]) :
              fifo_stream[service_key_passing_sessions[call[c].target].fifo_path][i]
                  = <<c, FragmentsPerLine>>
        /\ DOMAIN service_bin_map = Bins
        /\ certificate_server = CertificateStore(Bins)

IsHex(str) == \A i \in 1..Len(str) : str[i] \in Range(HexDigits)

\* the line deviates from the format "nonce_hex,cipher_hex,client_id\n" for a
\* reader holding kek: not exactly two commas, no terminating newline, a nonce
\* that is not 24 hex characters, a ciphertext that does not decode or does
\* not decrypt, or a client id that is not a decimal number
Deviates(kek, line) ==
    LET f == split(line, ",")
    IN  \/ Len(f) # 3
        \/ line = <<>>
        \/ line[Len(line)] # "\n"
        \/ Len(f[1]) # 2 * NONCE_LEN
        \/ ~IsHex(f[1])
        \/ ~hex_decode(f[2]).ok
        \/ ~open_in_place(kek, hex_decode(f[1]).val, hex_decode(f[2]).val).ok
        \/ LET id == SubSeq(f[3], 1, Len(f[3]) - 1)
           IN  id = <<>> \/ \E i \in 1..Len(id) : id[i] \notin Range(DecDigits)

\* the reader thread of b returns from read_line in this step
ReadsLine(b) == reader[b].pc = "reading" /\ reader'[b].pc # "reading"

\* C14: a FIFO line that deviates from the format (not exactly two commas, no
\* terminating newline, a nonce that is not 24 hex characters, undecodable or
\* undecryptable ciphertext, non-decimal client id) is fatal to the reader
\* thread: the thread panics on it, nothing is inserted into CLIENT_MAP for it,
\* and a thread that has panicked never inserts again.
C14_Step ==
    \A b \in Bins :
        /\ (ReadsLine(b) /\ Deviates(reader[b].kek, read_line(b).line)) =>
              /\ reader'[b].pc = "panicked"
              /\ CLIENT_MAP'[b] = CLIENT_MAP[b]
        /\ reader[b].pc = "panicked" =>
              /\ reader'[b].pc = "panicked"
              /\ CLIENT_MAP'[b] = CLIENT_MAP[b]

C14_DeviatingLineIsFatal == [][C14_Step]_vars

\* C15: for every 32-byte key material k and client id c, the line that
\* write_session_key(k, c) produces under a KEK is decoded by read_session_key
\* under the same KEK to exactly (c, k), which is the entry the thread then
\* inserts; under a different KEK the reader panics and no entry is ever
\* inserted.
C15_Step ==
    \A b \in Bins :
        /\ ReadsLine(b) =>
              \A kek \in {reader[b].kek, OtherKek}, n \in AeadNonces,
                 k \in PipeKeys, id \in ClientIds :
                  read_line(b).line = Concat(LineFragments(kek, n, k, id)) =>
                      IF kek = reader[b].kek
                      THEN /\ reader'[b].pc = "got"
                           /\ reader'[b].got = [client_id |-> id, key |-> k]
                      ELSE /\ reader'[b].pc = "panicked"
                           /\ CLIENT_MAP'[b] = CLIENT_MAP[b]
        /\ CLIENT_MAP'[b] # CLIENT_MAP[b] =>
              /\ reader[b].pc = "got"
              /\ CLIENT_MAP'[b] = MapInsert(CLIENT_MAP[b], reader[b].got.client_id,
                                            reader[b].got.key)
        /\ reader[b].pc = "panicked" => CLIENT_MAP'[b] = CLIENT_MAP[b]

C15_LineRoundTrip == [][C15_Step]_vars

\* a line of write_session_key was decoded into the map entry of its id and
\* key, and a line sealed under another KEK is what the reader reads next
C15_Witness ==
    \E b \in Bins, id \in ClientIds :
        /\ reader[b].pc = "reading"
        /\ id \in DOMAIN CLIENT_MAP[b]
        /\ CLIENT_MAP[b][id] \in PipeKeys
        /\ read_line(b).returns
        /\ read_line(b).line \in WrittenLines(OtherKek)

\* the crate names that are lines of the hash index
IndexedNames == {c \in Crates \cup {SESAME} : <<c>> \in Range(IndexLines)}

\* C16: the policy-hash file of a crate is written atomically and before the
\* name of the crate is appended to the hash index: in every state of a build
\* with crates compiled side by side, every crate name present in the hash
\* index has a policy-hash file whose first line, the summary hash, is there.
C16_IndexedCrateHasSummary ==
    cargo_pc = "running" =>
        \A c \in IndexedNames :
            policy_file[c].exists /\ policy_file[c].lines # <<>>

\* C17: two runs of the policy hasher on the same crate, with the same impl
\* fingerprints and the same dependency summary hashes, emit the same
\* policy-hash file: the same summary line, the same local_summary_hash and
\* the same order of entries.
C17_RunsEmitSameFile ==
    \A j, k \in Jobs :
        (/\ rustc[j].crate = rustc[k].crate
         /\ emitted[j] # <<>>
         /\ emitted[k] # <<>>) => emitted[j] = emitted[k]

\* the position of a map key (a crate name or the def path of a type) among
\* the keys of the build in lexicographic order
KeyRank(k) ==
    CASE k = "alohomora" -> 1
      [] k = "app"       -> 2
      [] k = "app::P1"   -> 3
      [] k = "app::P2"   -> 4
      [] k = "dep_a"     -> 5
      [] k = "dep_a::P"  -> 6
      [] k = "dep_b"     -> 7
      [] k = "dep_b::P"  -> 8

\* the entries of a map in the order of their keys
SortedEntries(S) ==
    CHOOSE s \in Perms(S) :
        \A i, j \in 1..Cardinality(S) : i < j => KeyRank(s[i][1]) < KeyRank(s[j][1])

\* the dependencies of crate c that are in the hash index, each with the first
\* line of its policy-hash file
RolledUp(c) ==
    {<<n, policy_file[n].lines[1]>> : n \in UsedCrates(c) \cap IndexedNames}

\* the summary of crate c as a function of the set of its dependencies in the
\* index, their summaries and its impl fingerprints
SummaryOfSets(c) ==
    sha256_digest(<<sha256_digest(map_to_vec(SortedEntries(RolledUp(c)))),
                    sha256_digest(map_to_vec(SortedEntries(LocalImpls(c))))>>)

\* C18: the summary hash that prune_deps, get_leaves and dump_local_to_file
\* compute for a crate is the same for every order of the used-crate list and
\* every order of the lines of the hash index: it is a function of the set of
\* dependency names, their summary hashes and the impl fingerprints.
C18_SummaryIsFunctionOfSets ==
    \A j \in Jobs :
        emitted[j] # <<>> => emitted[j][1] = SummaryOfSets(rustc[j].crate)

\* C19: in every emitted policy-hash file, local_summary_hash is the SHA-256 of
\* the serialized local_impls_hashes map, the first line is the SHA-256 of the
\* hex SHA-256 of the serialized dependency_hashes map followed by
\* local_summary_hash, and dependency_hashes pairs each pruned dependency name
\* with the first line of the policy-hash file of that dependency.
C19_EmittedFileHashes ==
    \A j \in Jobs :
        emitted[j] # <<>> =>
            LET first    == emitted[j][1]
                expanded == emitted[j][2][2]
            IN  /\ expanded.local_summary_hash =
                       sha256_digest(map_to_vec(expanded.local_impls_hashes))
                /\ first = sha256_digest(
                               <<sha256_digest(map_to_vec(expanded.dependency_hashes)),
                                 expanded.local_summary_hash>>)
                /\ Range(expanded.dependency_hashes) = RolledUp(rustc[j].crate)
                /\ Len(expanded.dependency_hashes) = Cardinality(RolledUp(rustc[j].crate))
                /\ Range(expanded.local_impls_hashes) = LocalImpls(rustc[j].crate)

\* a file with two dependency entries and two impl entries was emitted
C19_Witness ==
    \E j \in Jobs :
        /\ emitted[j] # <<>>
        /\ Len(emitted[j][2][2].dependency_hashes) = 2
        /\ Len(emitted[j][2][2].local_impls_hashes) = 2
        /\ policy_file[rustc[j].crate].lines = emitted[j]

\* a dependency of crate c that is in the hash index has a policy-hash file
\* that is missing or empty
LeafUnreadable(c) ==
    /\ hash_index.exists
    /\ \E n \in UsedCrates(c) \cap IndexedNames :
          ~policy_file[n].exists \/ policy_file[n].lines = <<>>

\* C20: when the policy-hash file of a pruned dependency is missing or empty,
\* attesting the crate fails and its compilation stops: the step of get_leaves
\* ends the run with Compilation::Stop and touches neither a policy-hash file
\* nor the hash index, and a stopped run takes no further step.
C20_Step ==
    \A j \in Jobs :
        /\ (/\ rustc[j].pc = "pruned"
            /\ LeafUnreadable(rustc[j].crate)
            /\ rustc'[j] # rustc[j]) =>
                /\ rustc'[j].pc = "done"
                /\ rustc'[j].result = "Stop"
                /\ UNCHANGED <<policy_file, hash_index, emitted>>
        /\ rustc[j].result = "Stop" => rustc'[j] = rustc[j]
        /\ (rustc[j].pc \in {"waiting", "fetched", "pruned"} /\ rustc'[j] # rustc[j]) =>
                UNCHANGED <<policy_file, hash_index, emitted>>

C20_UnreadableLeafStops == [][C20_Step]_vars

\* a run of app stopped on a dependency whose file is missing or empty; app
\* has no policy-hash file and is not in the hash index
C20_Witness ==
    \E j \in Jobs :
        /\ rustc[j].crate = "app"
        /\ rustc[j].result = "Stop"
        /\ rustc[j].dependencies_names # <<>>
        /\ LeafUnreadable("app")
        /\ ~policy_file["app"].exists
        /\ "app" \notin Range(hash_index.bytes)

\* C21: when the hash-index file is absent, the policy hasher behaves as if it
\* were empty: prune_deps succeeds with no dependency, the run goes on to emit
\* the policy-hash file and is not stopped.
C21_Step ==
    \A j \in Jobs :
        (/\ rustc[j].pc = "fetched"
         /\ ~hash_index.exists
         /\ rustc'[j] # rustc[j]) =>
            /\ rustc'[j].pc = "pruned"
            /\ rustc'[j].dependencies_names = <<>>
            /\ rustc'[j].result # "Stop"

C21_AbsentIndexIsEmpty == [][C21_Step]_vars

\* the first line of a policy-hash file is absent or blank
NoSummaryLine(f) == f.exists /\ (f.lines = <<>> \/ f.lines[1] = <<>>)

\* C22: reading the summary hash of a policy-hash file whose first line is
\* absent or blank fails: a roll-up that reads such a file of a pruned
\* dependency is stopped, and the blank string is never taken as a hash.
C22_Step ==
    \A j \in Jobs :
        (/\ rustc[j].pc = "pruned"
         /\ rustc'[j] # rustc[j]
         /\ \E i \in 1..Len(rustc[j].dependencies_names) :
                NoSummaryLine(policy_file[rustc[j].dependencies_names[i]])) =>
            /\ rustc'[j].result = "Stop"
            /\ \A i \in 1..Len(rustc'[j].dependencies_hashes) :
                   rustc'[j].dependencies_hashes[i] # <<>>

C22_NoSummaryLineIsInvalidData == [][C22_Step]_vars

\* C23: a crate that uses the policy library but has no impl block of the
\* policy trait, and a crate that does not use the library, emit nothing:
\* their compiler runs create no policy-hash file and append no name to the
\* hash index.
C23_NoImplEmitsNothing ==
    \A j \in Jobs :
        (/\ rustc[j].pc # "none"
         /\ \/ SESAME \notin UsedCrates(rustc[j].crate)
            \/ LocalImpls(rustc[j].crate) = {}) =>
            /\ ~policy_file[rustc[j].crate].exists
            /\ emitted[j] = <<>>
            /\ cargo_pc = "running" => rustc[j].crate \notin IndexedNames

\* the certificates found in the certificates directory
WrittenCertificates ==
    {n \in TargetEntries : certificates_dir[n].certificate # <<>>}

\* C24: every certificate the issuer has written names the binary it was made
\* for, carries the first line of that binary's policy-hash file and the hex
\* SHA-256 of the binary's contents, and its signature verifies under the
\* issuer's key over the decoded policy hash followed by the decoded binary hash.
C24_CertificateContents ==
    \A n \in WrittenCertificates :
        LET cert == certificates_dir[n].certificate[1]
        IN  /\ cert.service_name = n
            /\ policy_file[n].exists
            /\ policy_file[n].lines # <<>>
            /\ cert.policy_hash = policy_file[n].lines[1]
            /\ cert.binary_hash = hex_encode(Sha256Finalize(target_release[n].contents))
            /\ hex_decode(cert.policy_hash).ok
            /\ hex_decode(cert.binary_hash).ok
            /\ cert.signature[1] = "hex"
            /\ ed25519_verify(IssuerKey,
                              hex_decode(cert.policy_hash).val
                                  \o hex_decode(cert.binary_hash).val,
                              cert.signature[2])

\* the issuer has returned after writing the certificates of two binaries
\* whose policy hashes are digests
C24_Witness ==
    /\ issuer_pc = "done"
    /\ issuer.result = "Ok"
    /\ WrittenCertificates = {"app", "dep_a"}
    /\ \A n \in WrittenCertificates :
           certificates_dir[n].certificate[1].policy_hash = SummaryLine(n)

\* an entry is a regular file with an execute bit and its policy-hash file exists
ExecutableWithPolicyFile(n) ==
    /\ target_release[n].kind = "file"
    /\ \E i \in 1..3 : target_release[n].mode[i] \in {1, 3, 5, 7}
    /\ policy_file[n].exists

\* C25 as stated: when the issuer, with a readable signing key, has ended, a
\* certificate file was written for an entry of target/release if and only if
\* the entry is a regular file with an execute bit and its policy-hash file
\* exists.
C25_WrittenIffExecutableWithPolicyFile ==
    (issuer_pc = "done" /\ issuer.key = IssuerKey) =>
        \A n \in TargetEntries :
            n \in issuer.written <=> ExecutableWithPolicyFile(n)

\* C25, amended: when the issuer has returned Ok, a certificate file was
\* written for an entry if and only if the entry is a regular file with an
\* execute bit and its policy-hash file exists; an executable without such a
\* file is no error. The run fails, and then writes nothing, only if the key
\* file is unreadable or the policy-hash file of some executable is empty or
\* begins with a line that is not hex.
C25_WrittenIffWhenOk ==
    /\ (issuer_pc = "done" /\ issuer.result = "Ok") =>
           \A n \in TargetEntries :
               /\ n \in issuer.written <=> ExecutableWithPolicyFile(n)
               /\ n \in issuer.written <=> certificates_dir[n].certificate # <<>>
    /\ (issuer_pc = "done" /\ issuer.result # "Ok") =>
           /\ \A n \in TargetEntries : ~certificates_dir[n].exists
           /\ \/ issuer.key_file = "missing"
              \/ \E n \in TargetEntries :
                     /\ ExecutableWithPolicyFile(n)
                     /\ \/ policy_file[n].lines = <<>>
                        \/ ~hex_decode(policy_file[n].lines[1]).ok

\* the issuer returned Ok: it skipped plain, an executable without a
\* policy-hash file, skipped dep_a, a file without an execute bit whose
\* policy-hash file exists, and wrote the certificate of app
C25_Witness ==
    /\ issuer_pc = "done"
    /\ issuer.result = "Ok"
    /\ is_executable(target_release["plain"])
    /\ ~policy_file["plain"].exists
    /\ target_release["dep_a"].kind = "file"
    /\ ~is_executable(target_release["dep_a"])
    /\ policy_file["dep_a"].exists
    /\ issuer.written = {"app"}

\* the call the step makes on the loader
LoaderCall == loader_log'[Len(loader_log')]

\* C26: register_service returns ServiceMismatch when the certificate parsed
\* from the path names another service than the argument; then, and on an I/O
\* or parse error, the certificate map is unchanged; on success the parsed
\* certificate is stored under the service name and no other entry changes.
C26_Step ==
    (loader_log' # loader_log /\ LoaderCall.op = "register_service") =>
        LET file == CertificateFiles[LoaderCall.path]
            name == LoaderCall.service_name
        IN  /\ (file.json # <<>> /\ file.json[1].service_name # name) =>
                   LoaderCall.result = "ServiceMismatchError"
            /\ ~file.exists => LoaderCall.result = "IoError"
            /\ (file.exists /\ file.json = <<>>) =>
                   LoaderCall.result = "AttestDataMalformedError"
            /\ LoaderCall.result # "Ok" =>
                   loader'.certificates = loader.certificates
            /\ LoaderCall.result = "Ok" =>
                   /\ DOMAIN loader'.certificates =
                          (DOMAIN loader.certificates) \cup {name}
                   /\ loader'.certificates[name] = file.json[1]
                   /\ \A k \in DOMAIN loader.certificates :
                          k # name => loader'.certificates[k] = loader.certificates[k]

C26_RegisterServiceChecksName == [][C26_Step]_vars

\* a loader that holds a certificate and then rejected, for the same service
\* name, a certificate that names another service
C26_Witness ==
    \E i, j \in 1..Len(loader_log) :
        /\ i < j
        /\ loader_log[i].op = "register_service"
        /\ loader_log[i].result = "Ok"
        /\ loader_log[j].op = "register_service"
        /\ loader_log[j].service_name = loader_log[i].service_name
        /\ loader_log[j].result = "ServiceMismatchError"
        /\ loader_log[i].service_name \in DOMAIN loader.certificates

\* C27: load_certificate_key loads the key at most once: a call on a loader
\* that holds a key returns Ok, whatever the path, and leaves the key as it
\* is; a call that fails on a loader without a key leaves the key unset.
C27_Step ==
    (loader_log' # loader_log /\ LoaderCall.op = "load_certificate_key") =>
        /\ loader.accepted_keys # "None" =>
               /\ LoaderCall.result = "Ok"
               /\ ~LoaderCall.value
               /\ loader'.accepted_keys = loader.accepted_keys
        /\ (loader.accepted_keys = "None" /\ LoaderCall.result # "Ok") =>
               loader'.accepted_keys = "None"
        /\ (loader.accepted_keys = "None" /\ LoaderCall.result = "Ok") =>
               loader'.accepted_keys # "None"

C27_KeyLoadedAtMostOnce == [][C27_Step]_vars

\* a key was loaded, and later calls that named another key file and a
\* missing file returned Ok and left the key of the first call
C27_Witness ==
    /\ Len(loader_log) = 3
    /\ loader_log[1].op = "load_certificate_key"
    /\ loader_log[1].path = "issuer_der"
    /\ loader_log[2].op = "load_certificate_key"
    /\ loader_log[2].path = "other_der"
    /\ loader_log[3].op = "load_certificate_key"
    /\ loader_log[3].path = "no_der"
    /\ loader_log[3].result = "Ok"
    /\ loader.accepted_keys = [i \in 1..KEY_LEN |-> 1]

\* the nonce and the service name of the blob a report's signature was made of
SignedNonce(report) == report.signature[3][5]
SignedName(report) == report.signature[3][6]

\* C28: a report whose signature was made for another nonce than the one the
\* client drew in this call, or for another service name than the binary the
\* client asked for, is rejected with InvalidAttestation, whatever its
\* certificate and binary hash.
C28_ForeignReportRejected ==
    \A c \in Calls :
        (/\ call[c].pc = "done"
         /\ call[c].result \in {"Ok", "InvalidAttestation"}
         /\ \/ SignedNonce(call[c].report) # call[c].nonce
            \/ SignedName(call[c].report) # call[c].bin) =>
            call[c].result = "InvalidAttestation"

\* a client that holds the sidecar's key and the issued certificates rejected
\* a replayed report of the binary it asked for: certificate and binary hash
\* match and the signature is the sidecar's, made for the earlier nonce
C28_Witness ==
    \E c \in Calls :
        /\ call[c].pc = "done"
        /\ call[c].result = "InvalidAttestation"
        /\ call[c].report \in RecordedReports
        /\ call[c].report.service_name = call[c].bin
        /\ verify_certificate(call[c].report.certificate)
        /\ HashesMatch(call[c].report)
        /\ allowed_keys = signing_key
        /\ SignedNonce(call[c].report) # call[c].nonce

\* the FIFO of the service that call c writes to
TargetFifo(c) == service_key_passing_sessions[call[c].target].fifo_path

\* the step is one of attest_binary for call c
AttestStep(c) ==
    /\ call[c].pc \in {"sent", "signed", "writing", "written"}
    /\ call'[c] # call[c]

\* C29: in one attest_binary call the report is signed, then the line is
\* written to the FIFO, then the report is returned: a fragment is written
\* only by a call that holds its signature, a report is returned only when
\* every fragment of the line with its client id is in the FIFO stream, after
\* the last fragment, and a step of the call changes nothing outside the
\* call but the FIFO of its service.
C29_Step ==
    \A c \in Calls :
        /\ (AttestStep(c) /\ fifo_stream' # fifo_stream) =>
               /\ call[c].sig # <<>>
               /\ call[c].pc = "writing"
               /\ call'[c].pc \in {"writing", "written"}
        /\ (AttestStep(c) /\ call'[c].pc = "reported") =>
               /\ call[c].pc = "written"
               /\ call'[c].report.signature = call[c].sig
               /\ call'[c].report.client_id = call[c].client_id
               /\ \A k \in 1..Len(call[c].frags) :
                      <<c, k>> \in Range(fifo_stream[TargetFifo(c)])
               /\ \E i \in 1..Len(lines_written[TargetFifo(c)]) :
                      lines_written[TargetFifo(c)][i].client_id = call[c].client_id
               /\ fifo_stream' = fifo_stream
        /\ AttestStep(c) =>
               /\ UNCHANGED <<exe_on_disk, fifo_file, fifo_readers, fifo_writers>>
               /\ UNCHANGED <<mainVars, serviceVars, lines_read, takes>>
               /\ UNCHANGED <<service_bin_map, certificate_server, signing_key,
                              service_mapping, service_key_passing_sessions>>
               /\ UNCHANGED <<client_certificates, service_to_bin, allowed_keys>>
               /\ \A b \in Bins :
                      fifo'[b] # fifo[b] =>
                          call[c].pc = "writing" /\ b = TargetFifo(c)

C29_SignWriteReturn == [][C29_Step]_vars

\* two calls have returned their reports, each after its line was written
C29_Witness ==
    /\ \A c \in 1..2 : call[c].pc \in {"reported", "done"} /\ call[c].report # <<>>
    /\ Len(lines_written["bin_a"]) = 2

\* C30: a handler that calls get_key_for_client with a client id that a
\* successful verify_binary returned finds the entry: the first lookup of an
\* id, on a map no earlier lookup has poisoned, returns the key.
C30_HandlerFindsEntry ==
    \A i \in 1..Len(takes) :
        (\A j \in 1..(i - 1) :
            /\ takes[j].ok
            /\ takes[j].client_id # takes[i].client_id) =>
            takes[i].ok

\* the step is a get_key_for_client call, recorded as the last of takes
TakeMade == takes' # takes
LastTake == takes'[Len(takes')]

\* C31: a get_key_for_client call for a client id that is absent from
\* CLIENT_MAP fails without changing the map and without disabling it:
\* afterwards the reader thread still inserts the pair it has read, and a
\* call for an id that is present returns its key.
C31_Step ==
    /\ TakeMade =>
           /\ LastTake.client_id \notin DOMAIN CLIENT_MAP[LastTake.bin] =>
                  /\ ~LastTake.ok
                  /\ CLIENT_MAP' = CLIENT_MAP
           /\ LastTake.client_id \in DOMAIN CLIENT_MAP[LastTake.bin] =>
                  /\ LastTake.ok
                  /\ LastTake.key = CLIENT_MAP[LastTake.bin][LastTake.client_id]
    /\ \A b \in Bins :
           (reader[b].pc = "got" /\ reader'[b] # reader[b]) =>
               /\ reader[b].got.client_id \in DOMAIN CLIENT_MAP'[b]
               /\ CLIENT_MAP'[b][reader[b].got.client_id] = reader[b].got.key

C31_AbsentIdLeavesMapUsable == [][C31_Step]_vars

\* call c is inside attest_binary
InAttest(c) == call[c].pc \in {"sent", "signed", "writing", "written"}

\* C32: concurrent attest_binary calls never deadlock: every call that the
\* sidecar has received eventually returns its report or fails.
C32_CallsReturnOrFail ==
    \A c \in Calls : InAttest(c) ~> ~InAttest(c)

\* one call holds the Mutex in the middle of its line while the other has
\* signed its report and waits for the Mutex
C32_Witness ==
    \E c, d \in Calls :
        /\ call[c].pc = "writing"
        /\ call[c].written > 0
        /\ sessions_lock = c
        /\ call[d].pc = "signed"

\* the pairs of lines_read[b] that the reader thread has inserted: all of them
\* when it is back at read_session_key, all but the last one otherwise
InsertedLines(b) ==
    IF reader[b].pc = "reading" THEN 1..Len(lines_read[b])
    ELSE 1..(Len(lines_read[b]) - 1)

\* the inserted pairs of lines_read[b] that carry client id
InsertedWithId(b, id) == WithId(lines_read[b], id) \cap InsertedLines(b)

\* the last of a non-empty set of positions
LastOf(S) == CHOOSE i \in S : \A j \in S : j <= i

\* two lines of the FIFO of b carried id, the reader thread has inserted both,
\* and no get_key_for_client has returned a key for id
TwoLinesUnconsumed(b, id) ==
    /\ Cardinality(InsertedWithId(b, id)) >= 2
    /\ TakenOf(b, id) = {}

\* C33: client ids are not de-duplicated: when two lines of a FIFO carry the
\* same client id and neither was consumed, then once the reader thread has
\* processed both the map holds for that id the key of the line delivered
\* later, the one get_key_for_client call that succeeds returns that key and
\* removes the entry, and a call for an id without an entry fails.
C33_Step ==
    \A b \in Bins, id \in ClientIds :
        /\ TwoLinesUnconsumed(b, id) =>
               /\ id \in DOMAIN CLIENT_MAP[b]
               /\ CLIENT_MAP[b][id] = lines_read[b][LastOf(InsertedWithId(b, id))].key
               /\ TakeStep(b, id) =>
                      /\ LastTake.key = lines_read[b][LastOf(InsertedWithId(b, id))].key
                      /\ id \notin DOMAIN CLIENT_MAP'[b]
        /\ (TakeMade /\ LastTake.bin = b /\ LastTake.client_id = id
                /\ id \notin DOMAIN CLIENT_MAP[b]) => ~LastTake.ok

C33_LaterLineWins == [][C33_Step]_vars

\* two lines with one client id and different keys were inserted, and the one
\* call that returned a key for the id returned the key of the second line
C33_Witness ==
    \E b \in Bins, id \in ClientIds :
        /\ Cardinality(InsertedWithId(b, id)) = 2
        /\ Cardinality(TakenOf(b, id)) = 1
        /\ LET first == CHOOSE i \in InsertedWithId(b, id) :
                            i # LastOf(InsertedWithId(b, id))
               later == LastOf(InsertedWithId(b, id))
           IN  /\ lines_read[b][first].key # lines_read[b][later].key
               /\ \A i \in TakenOf(b, id) : takes[i].key = lines_read[b][later].key
        /\ id \notin DOMAIN CLIENT_MAP[b]

\* C34: the entries of CLIENT_MAP are inserted only by the reader thread and
\* removed only by get_key_for_client: an id enters the map of b only in the
\* step in which the reader thread inserts the pair it read for that id, an
\* id leaves it only in a get_key_for_client call for that very id that
\* returns its key, and the key of an entry that stays changes only when the
\* reader thread inserts a pair for the same id; so the entry of a client
\* that issues no RPC stays.
C34_Step ==
    \A b \in Bins, id \in ClientIds :
        /\ (id \notin DOMAIN CLIENT_MAP[b] /\ id \in DOMAIN CLIENT_MAP'[b]) =>
               /\ reader[b].pc = "got"
               /\ reader[b].got.client_id = id
               /\ reader'[b].pc = "reading"
               /\ ~TakeMade
        /\ (id \in DOMAIN CLIENT_MAP[b] /\ id \notin DOMAIN CLIENT_MAP'[b]) =>
               /\ TakeMade
               /\ LastTake = [bin |-> b, client_id |-> id, ok |-> TRUE,
                              key |-> CLIENT_MAP[b][id]]
               /\ reader' = reader
        /\ (id \in DOMAIN CLIENT_MAP[b] /\ id \in DOMAIN CLIENT_MAP'[b]
                /\ CLIENT_MAP'[b][id] # CLIENT_MAP[b][id]) =>
               /\ reader[b].pc = "got"
               /\ reader[b].got = [client_id |-> id, key |-> CLIENT_MAP'[b][id]]
               /\ ~TakeMade

C34_InsertedByReaderRemovedByOwner == [][C34_Step]_vars

\* the key of one client was returned to a handler while the entry of another
\* client, for which no call was made, is still in the map
C34_Witness ==
    \E b \in Bins, id \in ClientIds :
        /\ id \in DOMAIN CLIENT_MAP[b]
        /\ \A i \in 1..Len(takes) : ~(takes[i].bin = b /\ takes[i].client_id = id)
        /\ \E i \in 1..Len(takes) :
               takes[i].ok /\ takes[i].bin = b /\ takes[i].client_id # id

\* the binaries of sidecar_config.toml: those main has still to launch, the
\* one it is launching and those it has launched
ConfiguredBinaries ==
    todo \cup ({main_bin} \cap Bins) \cup {b \in Bins : launch_log[b] # <<>>}

\* attest_binary has started for call c
Handled(c) == call[c].pc \notin {"idle", "sent"}

\* startup is over for binary b: it was hashed and its hash registered, its
\* FIFO made, its child spawned, the write end opened, and the handle
\* registered under its public service name
StartedUp(b) ==
    /\ launch_log[b] = <<"create_fifo", "spawn", "open_writer", "return">>
    /\ child[b] # "none"
    /\ b \in DOMAIN service_bin_map
    /\ service_bin_map[b] = hash_bin(b, exe_on_disk[b])
    /\ ConfigMapping[b] \in DOMAIN service_key_passing_sessions
    /\ service_key_passing_sessions[ConfigMapping[b]].handle = "open"
    /\ service_key_passing_sessions[ConfigMapping[b]].fifo_path = b

\* C35: the sidecar serves no attest_binary call until startup is over for
\* every configured binary: while a call is or was handled, the accept loop
\* runs, nothing is left to launch, every configured binary has its hash and
\* its FIFO writer registered, and a binary has a registered hash exactly
\* when its service has a registered writer.
C35_ServesAfterStartup ==
    (\E c \in Calls : Handled(c)) =>
        /\ main_pc = "serving"
        /\ todo = {}
        /\ \A b \in ConfiguredBinaries : StartedUp(b)
        /\ \A b \in Bins :
               b \in DOMAIN service_bin_map
                   <=> ConfigMapping[b] \in DOMAIN service_key_passing_sessions

\* a call is inside attest_binary, past the lookups, with two binaries started
C35_Witness ==
    /\ \E c \in Calls : call[c].pc = "signed"
    /\ ConfiguredBinaries = Bins
    /\ DOMAIN service_bin_map = Bins

\* C36: each public service name has at most one FIFO writer: the writer
\* registered under a name is not removed or replaced while the sidecar runs
\* (setup_service_key_channel for a name that has a writer is a panic of
\* main, after which nothing is registered and no call is served), and two
\* binaries that the config maps to one service are never both registered.
C36_Step ==
    /\ \A s \in DOMAIN service_key_passing_sessions :
           (s \notin DOMAIN service_key_passing_sessions'
               \/ service_key_passing_sessions'[s] # service_key_passing_sessions[s])
               => main_pc' = "panicked"
    /\ main_pc = "panicked" =>
           /\ main_pc' = "panicked"
           /\ service_key_passing_sessions' = service_key_passing_sessions
           /\ service_bin_map' = service_bin_map
           /\ \A c \in Calls : ~Handled(c)'
    /\ \A b1, b2 \in Bins :
           (b1 # b2 /\ service_mapping[b1] = service_mapping[b2]) =>
               ~(b1 \in DOMAIN service_bin_map' /\ b2 \in DOMAIN service_bin_map')

C36_OneWriterPerService == [][C36_Step]_vars

\* both binaries map to svc_a: the first is registered, and main panicked when
\* it registered the writer of the second
C36_Witness ==
    /\ service_mapping = SharedMapping
    /\ main_pc = "panicked"
    /\ Cardinality(DOMAIN service_bin_map) = 1
    /\ main_bin \notin DOMAIN service_bin_map

\* run j has pruned its dependency list
Pruned(j) ==
    \/ rustc[j].pc \in {"pruned", "leaves", "created", "registering",
                        "registered", "summary_written"}
    \/ rustc[j].pc = "done" /\ rustc[j].result = "Continue"

\* C37: after prune_deps succeeds the dependency list holds exactly the names
\* that are both in the used-crate list and lines of the hash index as it was
\* when prune_deps read it, in strictly increasing lexicographic order; the
\* list is not changed afterwards, so a used crate whose name is appended to
\* the index later is not in it.
C37_Step ==
    \A j \in Jobs :
        /\ (rustc[j].pc = "fetched" /\ rustc'[j].pc = "pruned") =>
               LET names == rustc'[j].dependencies_names
               IN  /\ Range(names) = Range(rustc[j].used) \cap IndexedNames
                   /\ \A i, k \in 1..Len(names) :
                          i < k => NameRank(names[i]) < NameRank(names[k])
        /\ (rustc[j].pc # "fetched" /\ rustc'[j].pc # "fetched" /\ rustc'[j].pc # "waiting") =>
               rustc'[j].dependencies_names = rustc[j].dependencies_names

C37_PrunedIsSortedIntersection == [][C37_Step]_vars

\* app pruned its list when dep_a alone was in the index, and dep_b, which it
\* uses, was appended afterwards
C37_Witness ==
    \E j \in Jobs :
        /\ Pruned(j)
        /\ rustc[j].dependencies_names = <<"dep_a">>
        /\ "dep_b" \in Range(rustc[j].used)
        /\ "dep_b" \in IndexedNames

\* crate name n is more than one line of the hash index
DuplicateInIndex(n) ==
    \E i, k \in 1..Len(IndexLines) : i < k /\ IndexLines[i] = <<n>> /\ IndexLines[k] = <<n>>

\* run j uses a crate that two of the runs it waited for compiled, so that
\* the name of the crate was in the hash index twice when j read it
DuplicateBeforeRollUp(j) ==
    \E k1, k2 \in rustc[j].after :
        /\ k1 # k2
        /\ rustc[k1].crate = rustc[k2].crate
        /\ rustc[k1].crate \in Range(rustc[j].used)
        /\ DuplicateInIndex(rustc[k1].crate)

\* run j has its dependency list and the hashes of its dependencies
PastRollUp(j) ==
    \/ rustc[j].pc \in {"leaves", "created", "registering", "registered",
                        "summary_written"}
    \/ rustc[j].pc = "done" /\ rustc[j].result = "Continue"

\* C38: the roll-up rejects duplicates: a run that finds the name of a crate
\* it uses more than once in the hash index does not complete its roll-up.
C38_DuplicatesRejected ==
    \A j \in Jobs : DuplicateBeforeRollUp(j) => ~PastRollUp(j)

\* the newline-terminated lines of the hash index
WholeIndexLines ==
    LET fields == split(hash_index.bytes, "\n")
    IN  SubSeq(fields, 1, Len(fields) - 1)

\* run j has returned from register_to_index
Registered(j) ==
    \/ rustc[j].pc \in {"registered", "summary_written"}
    \/ rustc[j].pc = "done" /\ rustc[j].result = "Continue" /\ emitted[j] # <<>>

\* C39: during the build the hash index is append-only and made of whole
\* lines: every newline-terminated line of the index is the name of one
\* crate, and the name of every crate whose run has returned from
\* register_to_index is such a line, whatever the interleaving of the runs.
C39_IndexOfWholeLines ==
    cargo_pc = "running" =>
        /\ \A i \in 1..Len(WholeIndexLines) :
               \E c \in Crates : WholeIndexLines[i] = <<c>>
        /\ \A j \in Jobs :
               Registered(j) => <<rustc[j].crate>> \in Range(WholeIndexLines)

\* the register_service calls for name k that returned Ok
RegisteredOk(k) ==
    {i \in 1..Len(loader_log) :
        /\ loader_log[i].op = "register_service"
        /\ loader_log[i].service_name = k
        /\ loader_log[i].result = "Ok"}

\* C40: after any sequence of register_service, register_bin_mapping and
\* load_certificate_key calls on a CertificateLoader, every certificate is
\* stored under the service name it carries, and get_certificate(k) returns
\* the certificate parsed by the most recent register_service call for k
\* that succeeded, or nothing when none did.
C40_StoredUnderOwnName ==
    /\ \A k \in DOMAIN loader.certificates :
           loader.certificates[k].service_name = k
    /\ \A k \in Bins :
           get_certificate(loader, k) =
               IF RegisteredOk(k) = {} THEN <<>>
               ELSE <<CertificateFiles[loader_log[LastOf(RegisteredOk(k))].path].json[1]>>

\* two certificates of bin_a were registered one after the other, a mapping
\* was registered, and the loader returns the second certificate
C40_Witness ==
    /\ Cardinality(RegisteredOk("bin_a")) = 2
    /\ \E i, k \in RegisteredOk("bin_a") :
           /\ i < k
           /\ loader_log[i].path # loader_log[k].path
           /\ get_certificate(loader, "bin_a") =
                  <<CertificateFiles[loader_log[k].path].json[1]>>
    /\ loader.service_to_bin # <<>>
====
